---- MODULE Spec2Model ----
(***************************************************************************)
(* A model of heartbeat-mcp: the HeartbeatAPI transport client (response   *)
(* cache, write invalidation, retry on 429), the error normaliser          *)
(* handleApiError, the name resolvers and the tool dispatcher with its     *)
(* mode handlers.                                                          *)
(*                                                                         *)
(* Spec        concurrent logical calls on one HeartbeatAPI instance,      *)
(*             interleaving at their await points, with a clock.           *)
(***************************************************************************)
EXTENDS Integers, Sequences, FiniteSets, TLC

VARIABLES
    now,        \* Date.now(), in milliseconds
    cache,      \* HeartbeatAPI.cache: key -> [data, expires]
    calls,      \* the logical calls waiting on the network, one record per slot
    last,       \* history: the latest call that came back from the network
    served,     \* history: the latest get answered from the cache
    fills,      \* history: per key, the latest fetch stored since the last mutating call
    epoch,      \* history: how many mutating calls have been made
    nextId,     \* history: number of calls that reached the network so far
    prior,      \* history: per key, the latest fetching get started since the last mutating call
    hist,       \* history: per call id, when it started and how it ended
    mutPending, \* history: a mutating call was made and no get has been made since
    width,      \* how many logical calls the callers keep in progress at the same time
    cap,        \* how many calls reach the network in this behaviour
    quota,      \* how many more attempts the remote API will answer with 429
    dir,        \* the community as the remote API holds it: users and channels
    req,        \* the invocation under study: a resolver or the tool, and its arguments
    run         \* history: what that invocation did and how it ended

vars == <<now, cache, calls, last, served, fills, epoch, nextId, prior, hist, mutPending,
          width, cap, quota, dir, req, run>>

----------------------------------------------------------------------------
(* Bounds of the model *)

MaxCalls == 2        \* calls that reach the network in one behaviour of Spec
MaxSlots == 2        \* logical calls in progress at the same time in Spec
MaxRetryCalls == 1   \* calls that reach the network in one behaviour of RetrySpec
Max429 == 4          \* attempts answered with 429 in one behaviour of RetrySpec
MaxIdle == 1000      \* latest instant the clock reaches by idling (deadlines may lie later)

(* Program constants *)

cacheTTL == 60000            \* constructor default, ms
RequestTimeout == 30000      \* axios timeout, ms
DefaultRetries == 3          \* request(..., retries = 3)
BackoffBase == 1000          \* Math.pow(2, 3 - retries) * 1000
SweepThreshold == 1000       \* this.cache.size > 1000

\* Granularity at which the idle clock is sampled: the shortest timer of the program.
TickStep == BackoffBase

Slots == 1..MaxSlots
Ids == 1..MaxCalls

----------------------------------------------------------------------------
(* Requests *)

Mutators == {"PUT", "POST", "DELETE"}

\* Text the program inspects character by character is a sequence of characters.
\* A path is the sequence of the pieces of its template literal.
SampleEmail == <<"a", "c", "@", "x">>
SampleId == <<"u", "1">>

\* The `params` argument of get: absent, or an object with its fields in insertion order.
NoParams == [given |-> FALSE, fields |-> <<>>]
Params(fields) == [given |-> TRUE, fields |-> fields]

\* JSON.stringify(params ?? {}): an absent argument and an empty object both give "{}".
Stringify(params) == IF params.given THEN params.fields ELSE <<>>

cacheKey(method, path, params) == <<method, path, Stringify(params)>>

\* The get calls of the model: two spellings of one key, and a second key.
GetArgs ==
    {<<(<<"/users">>), NoParams>>, <<(<<"/users">>), Params(<<>>)>>,
     <<(<<"/find/users">>), Params(<< <<"email", SampleEmail>> >>)>>}

\* The mutating calls of the model.
MutateArgs ==
    {<<"PUT", (<<"/comments">>)>>, <<"POST", (<<"/users">>)>>,
     <<"DELETE", (<<"/users/", SampleId>>)>>}

Keys == {cacheKey("GET", a[1], a[2]) : a \in GetArgs}

\* The body of a successful response. The community's data may change at any time,
\* so two responses are taken to be the same bytes only when they are one response:
\* a payload is named by the request it answers and the call that fetched it.
Payload(key, id) == [of |-> key, by |-> id]

\* No payload (a call that has not returned one).
NoKey == <<"none", <<"none">>, <<>> >>
NoData == Payload(NoKey, 0)

----------------------------------------------------------------------------
(* Errors *)

Statuses == {400, 401, 404, 429, 500}

\* The ways one HTTP attempt ends: a response with a status, an axios timeout,
\* or another transport failure.
Response(status) == [kind |-> "response", status |-> status]
TimedOut == [kind |-> "timeout", status |-> 0]
NetworkError == [kind |-> "neterr", status |-> 0]
Outcomes == {Response(s) : s \in {200} \cup Statuses} \cup {TimedOut, NetworkError}

\* axios resolves on a 2xx status and rejects on anything else.
IsSuccess(outcome) == outcome.kind = "response" /\ outcome.status \in 200..299

\* Bodies of an error response: an object with a message, one without, a bare string.
Bodies == {"obj_message", "obj_other", "text"}

\* The AxiosError client.request rejects with.
AxiosError(outcome, body) ==
    IF outcome.kind = "response"
    THEN [axios |-> TRUE, response |-> TRUE, status |-> outcome.status, body |-> body,
          code |-> "ERR_BAD_RESPONSE", message |-> "Request failed with status code"]
    ELSE IF outcome.kind = "timeout"
    THEN [axios |-> TRUE, response |-> FALSE, status |-> 0, body |-> "none",
          code |-> "ECONNABORTED", message |-> "timeout of 30000ms exceeded"]
    ELSE [axios |-> TRUE, response |-> FALSE, status |-> 0, body |-> "none",
          code |-> "ERR_NETWORK", message |-> "Network Error"]

\* An Error thrown by the program itself (the resolvers) or by the runtime.
PlainError(message) ==
    [axios |-> FALSE, response |-> FALSE, status |-> 0, body |-> "none",
     code |-> "none", message |-> message]

NoError == PlainError("none")

\* msg of handleApiError: body.message when the body is an object that has one,
\* else JSON.stringify(body).
ErrorDetail(body) ==
    IF body = "obj_message" THEN "body.message"
    ELSE IF body = "obj_other" THEN "{\"code\":1}"
    ELSE "\"text\""

\* The string handleApiError returns: its fixed text, and the status and detail it embeds.
Msg(text, status, detail) == [text |-> text, status |-> status, detail |-> detail]

\* A handleApiError whose switch has no case for 401.
handleApiError_no401(error) ==
    IF error.axios /\ error.response
    THEN CASE error.status = 400 -> Msg("Validation error: ", 0, ErrorDetail(error.body))
           [] error.status = 404 -> Msg("Not found: ", 0, ErrorDetail(error.body))
           [] error.status = 429 ->
                Msg("Rate limit exceeded after retries. Wait and try again.", 0, "")
           [] OTHER -> Msg("API error ", error.status, ErrorDetail(error.body))
    ELSE IF error.axios /\ error.code = "ECONNABORTED"
    THEN Msg("Request timed out. Try again.", 0, "")
    ELSE Msg("Unexpected error: ", 0, error.message)

handleApiError(error) ==
    IF error.axios /\ error.response
    THEN CASE error.status = 400 -> Msg("Validation error: ", 0, ErrorDetail(error.body))
           [] error.status = 401 ->
                Msg("API key invalid or expired. Check HEARTBEAT_API_KEY.", 0, "")
           [] error.status = 404 -> Msg("Not found: ", 0, ErrorDetail(error.body))
           [] error.status = 429 ->
                Msg("Rate limit exceeded after retries. Wait and try again.", 0, "")
           [] OTHER -> Msg("API error ", error.status, ErrorDetail(error.body))
    ELSE IF error.axios /\ error.code = "ECONNABORTED"
    THEN Msg("Request timed out. Try again.", 0, "")
    ELSE Msg("Unexpected error: ", 0, error.message)

----------------------------------------------------------------------------
(* HeartbeatAPI *)

EmptyCache == [k \in {} |-> 0]

\* cached && cached.expires > Date.now()
CacheFresh(c, key, t) == key \in DOMAIN c /\ c[key].expires > t

\* this.cache.set(key, entry)
CacheSet(c, key, entry) ==
    [k \in (DOMAIN c) \cup {key} |-> IF k = key THEN entry ELSE c[k]]

\* expires of an entry stored at instant t
Expiry(t) == t + cacheTTL

\* A sweep that already runs when the cache holds 1000 entries.
Sweep_atThreshold(c, t) ==
    IF Cardinality(DOMAIN c) >= SweepThreshold
    THEN [k \in {x \in DOMAIN c : c[x].expires > t} |-> c[k]]
    ELSE c

\* Lazy eviction in get: when the cache holds more than 1000 entries, drop the expired ones.
Sweep(c, t) ==
    IF Cardinality(DOMAIN c) > SweepThreshold
    THEN [k \in {x \in DOMAIN c : c[x].expires > t} |-> c[k]]
    ELSE c

\* A backoff that grows linearly instead of doubling.
RetryDelay_linear(retries) == (DefaultRetries - retries + 1) * BackoffBase

\* Math.pow(2, 3 - retries) * 1000
RetryDelay(retries) == (2 ^ (DefaultRetries - retries)) * BackoffBase

\* A retry on any AxiosError, not only on a 429 response.
ShouldRetry_any(err, retries) == err.axios /\ retries > 0

\* err instanceof AxiosError && err.response?.status === 429 && retries > 0
ShouldRetry(err, retries) ==
    err.axios /\ err.response /\ err.status = 429 /\ retries > 0

\* A recursive call that passes `retries` on unchanged.
NextRetries_same(retries) == retries

\* retries passed to the recursive request call
NextRetries(retries) == retries - 1

NoFill == [id |-> 0, at |-> 0, epoch |-> 0]

\* No community data, no invocation under study.
NoDir == [users |-> <<>>, channels |-> <<>>, events |-> <<>>]
NoReq == [fn |-> "none"]
NoRun == [done |-> FALSE]

IdleCall ==
    [pc |-> "idle", id |-> 0, method |-> "GET", path |-> <<"/users">>, params |-> NoParams,
     retries |-> 0, sentAt |-> 0, wakeAt |-> 0,
     \* history of the call
     startedAt |-> 0, outcomes |-> <<>>, delays |-> <<>>, sleepAt |-> 0, slept |-> 0,
     ref |-> 0, fill |-> NoFill, afterMut |-> FALSE, cleared |-> FALSE, reqEpoch |-> 0,
     ok |-> FALSE, data |-> NoData, err |-> NoError,
     had |-> [k \in {} |-> 0]       \* the cache a get found when it was called
    ]

NotServed ==
    [valid |-> FALSE, key |-> NoKey, at |-> 0, data |-> NoData,
     ref |-> 0, fill |-> NoFill, epoch |-> 0, afterMut |-> FALSE]

KeyOf(call) == cacheKey(call.method, call.path, call.params)

NoHist == [startedAt |-> 0, state |-> "none"]

\* The record of a call that starts now.
NewCall(method, path, params) ==
    [IdleCall EXCEPT !.id = nextId + 1, !.method = method, !.path = path,
                     !.params = params, !.startedAt = now]

\* An HTTP attempt of request(): client.request is issued before the await.
Send(call, retries) ==
    [call EXCEPT !.pc = "flight", !.retries = retries, !.sentAt = now]

\* A new logical call takes the lowest slot that holds no call in progress
\* (0 when there is none).
FreeSlots == {c \in 1..width : calls[c].pc = "idle"}
FreeSlot == IF FreeSlots = {} THEN 0 ELSE CHOOSE c \in FreeSlots : \A d \in FreeSlots : c <= d

\* cache.clear() of put, post and delete
CacheAfterMutate(c) == EmptyCache

TypeOK ==
    /\ now \in Nat
    /\ DOMAIN cache \subseteq Keys
    /\ DOMAIN calls = Slots
    /\ \A c \in Slots : calls[c].pc \in {"idle", "flight", "sleep"}
    /\ last.pc \in {"idle", "done"}
    /\ nextId \in 0..MaxCalls
    /\ width \in Slots
    /\ cap \in 0..MaxCalls
    /\ quota \in Nat
    /\ epoch \in 0..MaxCalls
    /\ mutPending \in BOOLEAN

InitApi ==
    /\ now = 0
    /\ cache = EmptyCache
    /\ calls = [c \in Slots |-> IdleCall]
    /\ last = IdleCall
    /\ served = NotServed
    /\ fills = [k \in Keys |-> NoFill]
    /\ epoch = 0
    /\ nextId = 0
    /\ prior = [k \in Keys |-> 0]
    /\ hist = [i \in Ids |-> NoHist]
    /\ mutPending = FALSE
    /\ dir = NoDir
    /\ req = NoReq
    /\ run = NoRun

\* Concurrent callers of one HeartbeatAPI; the remote API does not rate-limit.
Init ==
    /\ InitApi
    /\ width = MaxSlots
    /\ cap = MaxCalls
    /\ quota = 0

\* api.get(path, params) up to its first await: a hit returns the cached payload;
\* a miss sweeps when the cache is large and issues the request.
Get(path, params) ==
    LET key == cacheKey("GET", path, params)
        c == FreeSlot
        id == nextId + 1
    IN  /\ mutPending' = FALSE
        /\ IF CacheFresh(cache, key, now)
           THEN /\ served' = [valid |-> TRUE, key |-> key, at |-> now,
                              data |-> cache[key].data, ref |-> prior[key],
                              fill |-> fills[key], epoch |-> epoch,
                              afterMut |-> mutPending]
                /\ UNCHANGED <<cache, calls, nextId, prior, hist>>
           ELSE /\ c # 0
                /\ nextId < cap
                /\ nextId' = id
                /\ prior' = [prior EXCEPT ![key] = id]
                /\ cache' = Sweep(cache, now)
                /\ calls' = [calls EXCEPT ![c] =
                        [Send(NewCall("GET", path, params), DefaultRetries) EXCEPT
                            !.ref = prior[key], !.fill = fills[key],
                            !.afterMut = mutPending, !.reqEpoch = epoch,
                            !.had = cache]]
                /\ hist' = [hist EXCEPT ![id] = [startedAt |-> now, state |-> "pending"]]
                /\ UNCHANGED served
        /\ UNCHANGED <<now, last, fills, epoch, width, cap, quota, dir, req, run>>

\* api.put / api.post / api.delete up to the first await: clear the cache, issue the request.
Mutate(method, path) ==
    LET c == FreeSlot
        id == nextId + 1
        after == CacheAfterMutate(cache)
    IN  /\ c # 0
        /\ nextId < cap
        /\ nextId' = id
        /\ cache' = after
        /\ fills' = [k \in Keys |-> NoFill]
        /\ prior' = [k \in Keys |-> 0]
        /\ epoch' = epoch + 1
        /\ mutPending' = TRUE
        /\ calls' = [calls EXCEPT ![c] =
                [Send(NewCall(method, path, NoParams), DefaultRetries) EXCEPT
                    !.cleared = (after = EmptyCache), !.reqEpoch = epoch + 1]]
        /\ hist' = [hist EXCEPT ![id] = [startedAt |-> now, state |-> "pending"]]
        /\ UNCHANGED <<now, last, served, width, cap, quota, dir, req, run>>

\* A client that stores the response of every successful call, whatever its method.
Respond_storeAll(c, outcome, body) ==
    LET call == calls[c]
        key == KeyOf(call)
        err == AxiosError(outcome, body)
        seen == [call EXCEPT !.outcomes = Append(@, outcome)]
        data == Payload(key, call.id)
    IN  /\ call.pc = "flight"
        /\ IF outcome.kind = "timeout" THEN now >= call.sentAt + RequestTimeout
                                       ELSE now < call.sentAt + RequestTimeout
        /\ IF IsSuccess(outcome)
           THEN /\ calls' = [calls EXCEPT ![c] = IdleCall]
                /\ last' = [seen EXCEPT !.pc = "done", !.ok = TRUE, !.data = data]
                /\ hist' = [hist EXCEPT ![call.id].state = "ok"]
                /\ IF call.method \in {"GET"} \cup Mutators
                   THEN /\ cache' = CacheSet(cache, key,
                                        [data |-> data, expires |-> Expiry(now)])
                        /\ fills' = [fills EXCEPT ![key] =
                                        [id |-> call.id, at |-> now, epoch |-> call.reqEpoch]]
                   ELSE UNCHANGED <<cache, fills>>
           ELSE IF ShouldRetry(err, call.retries)
           THEN /\ calls' = [calls EXCEPT ![c] =
                        [seen EXCEPT !.pc = "sleep", !.sleepAt = now,
                                     !.wakeAt = now + RetryDelay(call.retries),
                                     !.delays = Append(@, RetryDelay(call.retries))]]
                /\ UNCHANGED <<cache, last, fills, hist>>
           ELSE /\ calls' = [calls EXCEPT ![c] = IdleCall]
                /\ last' = [seen EXCEPT !.pc = "done", !.ok = FALSE, !.err = err]
                /\ hist' = [hist EXCEPT ![call.id].state = "failed"]
                /\ UNCHANGED <<cache, fills>>
        /\ IF outcome = Response(429)
           THEN quota > 0 /\ quota' = quota - 1
           ELSE UNCHANGED quota
        /\ UNCHANGED <<now, served, epoch, nextId, prior, mutPending, width, cap, dir, req, run>>

\* An HTTP attempt ends. A timeout is axios aborting after RequestTimeout; any other
\* outcome arrives before that. Then the rest of request() and of get() runs:
\* a 429 with retries left sleeps, a success of a GET is stored, anything else ends the call.
Respond(c, outcome, body) ==
    LET call == calls[c]
        key == KeyOf(call)
        err == AxiosError(outcome, body)
        seen == [call EXCEPT !.outcomes = Append(@, outcome)]
        data == Payload(key, call.id)
    IN  /\ call.pc = "flight"
        /\ IF outcome.kind = "timeout" THEN now >= call.sentAt + RequestTimeout
                                       ELSE now < call.sentAt + RequestTimeout
        /\ IF IsSuccess(outcome)
           THEN /\ calls' = [calls EXCEPT ![c] = IdleCall]
                /\ last' = [seen EXCEPT !.pc = "done", !.ok = TRUE, !.data = data]
                /\ hist' = [hist EXCEPT ![call.id].state = "ok"]
                /\ IF call.method = "GET"
                   THEN /\ cache' = CacheSet(cache, key,
                                        [data |-> data, expires |-> Expiry(now)])
                        /\ fills' = [fills EXCEPT ![key] =
                                        [id |-> call.id, at |-> now, epoch |-> call.reqEpoch]]
                   ELSE UNCHANGED <<cache, fills>>
           ELSE IF ShouldRetry(err, call.retries)
           THEN /\ calls' = [calls EXCEPT ![c] =
                        [seen EXCEPT !.pc = "sleep", !.sleepAt = now,
                                     !.wakeAt = now + RetryDelay(call.retries),
                                     !.delays = Append(@, RetryDelay(call.retries))]]
                /\ UNCHANGED <<cache, last, fills, hist>>
           ELSE /\ calls' = [calls EXCEPT ![c] = IdleCall]
                /\ last' = [seen EXCEPT !.pc = "done", !.ok = FALSE, !.err = err]
                /\ hist' = [hist EXCEPT ![call.id].state = "failed"]
                /\ UNCHANGED <<cache, fills>>
        /\ IF outcome = Response(429)
           THEN quota > 0 /\ quota' = quota - 1
           ELSE UNCHANGED quota
        /\ UNCHANGED <<now, served, epoch, nextId, prior, mutPending, width, cap, dir, req, run>>

\* The setTimeout of a retry fires (no earlier than its delay): request() calls itself.
Wake(c) ==
    LET call == calls[c]
    IN  /\ call.pc = "sleep"
        /\ now >= call.wakeAt
        /\ calls' = [calls EXCEPT ![c] =
                [Send(call, NextRetries(call.retries)) EXCEPT
                    !.slept = @ + (now - call.sleepAt), !.reqEpoch = epoch]]
        /\ UNCHANGED <<now, cache, last, served, fills, epoch, nextId, prior, hist,
                       mutPending, width, cap, quota, dir, req, run>>

\* Instants at which something is due: a retry timer, an axios timeout, a cache expiry.
Deadlines ==
    {calls[c].wakeAt : c \in {x \in Slots : calls[x].pc = "sleep"}}
    \cup {calls[c].sentAt + RequestTimeout : c \in {x \in Slots : calls[x].pc = "flight"}}
    \cup {cache[k].expires : k \in DOMAIN cache}

\* Time passes: to the next sampled instant while idling, or to a deadline.
Tick ==
    /\ \E t \in Deadlines \cup {now + TickStep} :
          /\ t > now
          /\ t \in Deadlines \/ t <= MaxIdle
          /\ now' = t
    /\ UNCHANGED <<cache, calls, last, served, fills, epoch, nextId, prior, hist,
                   mutPending, width, cap, quota, dir, req, run>>

\* What the remote API may answer: an outcome, and for an error response its body
\* (here always an object with a message).
AnswerOf(o) == <<o, IF o.kind = "response" /\ ~IsSuccess(o) THEN "obj_message" ELSE "none">>
Answers == {AnswerOf(o) : o \in Outcomes}

\* The answers the cache tells apart: a success, an error status, a transport failure.
SpecAnswers == {AnswerOf(o) : o \in {Response(200), Response(500), TimedOut, NetworkError}}

Next ==
    \/ \E a \in GetArgs : Get(a[1], a[2])
    \/ \E a \in MutateArgs : Mutate(a[1], a[2])
    \/ \E c \in Slots, a \in SpecAnswers : Respond(c, a[1], a[2])
    \/ Tick

Spec == Init /\ [][Next]_vars

\* One logical call at a time; the remote API may rate-limit any attempt of a call.
InitRetry ==
    /\ InitApi
    /\ width = 1
    /\ cap = MaxRetryCalls
    /\ quota = Max429

RetryNext ==
    \/ \E a \in GetArgs : Get(a[1], a[2])
    \/ \E a \in MutateArgs : Mutate(a[1], a[2])
    \/ \E c \in Slots, a \in Answers : Respond(c, a[1], a[2])
    \/ \E c \in Slots : Wake(c)
    \/ Tick

RetrySpec == InitRetry /\ [][RetryNext]_vars

\* The same calls and answers, with the scheduling the runtime guarantees: every HTTP
\* attempt ends (axios answers or times out), every timer fires, time passes.
FairRetrySpec ==
    /\ RetrySpec
    /\ WF_vars(Tick)
    /\ \A c \in Slots : WF_vars(\E a \in Answers : Respond(c, a[1], a[2]))
    /\ \A c \in Slots : WF_vars(Wake(c))

----------------------------------------------------------------------------
(* Text *)

Digits == {"0", "1", "2", "3", "4", "5", "6", "7", "8", "9"}
UpperLetters == <<"A", "B", "C", "D", "E", "F", "G", "H", "I", "J", "K", "L", "M",
                  "N", "O", "P", "Q", "R", "S", "T", "U", "V", "W", "X", "Y", "Z">>
LowerLetters == <<"a", "b", "c", "d", "e", "f", "g", "h", "i", "j", "k", "l", "m",
                  "n", "o", "p", "q", "r", "s", "t", "u", "v", "w", "x", "y", "z">>

\* String.prototype.toLowerCase, one character and a whole string
LowerChar(ch) ==
    IF \E i \in 1..Len(UpperLetters) : UpperLetters[i] = ch
    THEN LowerLetters[CHOOSE i \in 1..Len(UpperLetters) : UpperLetters[i] = ch]
    ELSE ch
toLowerCase(str) == [i \in 1..Len(str) |-> LowerChar(str[i])]

\* String.prototype.includes
includes(str, part) ==
    \E i \in 0..(Len(str) - Len(part)) : SubSeq(str, i + 1, i + Len(part)) = part

\* [0-9a-f] under the i flag
IsHex(ch) == ch \in Digits \cup {"a", "b", "c", "d", "e", "f", "A", "B", "C", "D", "E", "F"}

\* The pattern without its i flag.
UUID_RE_caseSensitive(str) ==
    /\ Len(str) = 36
    /\ \A i \in 1..36 :
          IF i \in {9, 14, 19, 24} THEN str[i] = "-"
          ELSE str[i] \in Digits \cup {"a", "b", "c", "d", "e", "f"}

\* UUID_RE.test: 8-4-4-4-12 hexadecimal digits, anchored at both ends, case-insensitive
UuidLength == 36
UuidHyphens == {9, 14, 19, 24}
UUID_RE(str) ==
    /\ Len(str) = UuidLength
    /\ \A i \in 1..UuidLength :
          IF i \in UuidHyphens THEN str[i] = "-" ELSE IsHex(str[i])

\* Array.prototype.filter, and the first index that passes (0 when none), as find uses it
Filter(list, Test(_)) == SelectSeq(list, Test)
FindIndex(list, Test(_)) ==
    IF \E i \in 1..Len(list) : Test(list[i])
    THEN CHOOSE i \in 1..Len(list) : Test(list[i]) /\ \A j \in 1..(i - 1) : ~Test(list[j])
    ELSE 0

\* Array.prototype.map
Map(list, F(_)) == [i \in 1..Len(list) |-> F(list[i])]

----------------------------------------------------------------------------
(* The remote API as the handlers see it *)

\* The resource a successful GET returns: the remote API's data for the path.
ById(list, id) == Filter(list, LAMBDA x : x.id = id)
FieldOf(params, name) ==
    LET hits == Filter(params.fields, LAMBDA f : f[1] = name)
    IN  IF hits = <<>> THEN <<>> ELSE hits[1][2]
Upstream(path, params) ==
    IF path = <<"/users">> THEN dir.users
    ELSE IF path = <<"/channels">> THEN dir.channels
    ELSE IF path = <<"/events">> THEN dir.events
    ELSE IF path = <<"/find/users">>
    THEN Filter(dir.users, LAMBDA u : u.email = FieldOf(params, "email"))
    ELSE IF Len(path) = 2 /\ path[1] = "/users/" /\ ById(dir.users, path[2]) # <<>>
    THEN ById(dir.users, path[2])[1]
    ELSE <<>>

\* The remote API has no user under an id it does not know.
Exists(path) ==
    (Len(path) = 2 /\ path[1] = "/users/") => ById(dir.users, path[2]) # <<>>

\* A caller's view of the HeartbeatAPI while a handler runs: the cache, the api calls
\* made so far, how many of them reached the network, and the result of the latest one;
\* the 429 answers the remote API gives a mutating call before its answer, and the
\* answers each HTTP attempt of each mutating call received.
ApiState(c) ==
    [cache |-> c, log |-> <<>>, net |-> 0, threw |-> FALSE, err |-> NoError, val |-> <<>>,
     limited |-> 0, tries |-> <<>>]

ApiCall(verb, path, params) == [verb |-> verb, path |-> path, params |-> params]

\* await api.get(path, params), the remote API answering `answer` if it is asked
ApiGet(st, path, params, answer) ==
    LET key == cacheKey("GET", path, params)
        logged == [st EXCEPT !.log = Append(@, ApiCall("GET", path, params))]
        outcome == IF IsSuccess(answer[1]) /\ ~Exists(path) THEN Response(404) ELSE answer[1]
        body == IF outcome = answer[1] THEN answer[2] ELSE "obj_message"
        data == Upstream(path, params)
    IN  IF CacheFresh(st.cache, key, now)
        THEN [logged EXCEPT !.val = st.cache[key].data]
        ELSE IF IsSuccess(outcome)
        THEN [logged EXCEPT !.net = @ + 1, !.val = data,
                            !.cache = CacheSet(Sweep(st.cache, now), key,
                                               [data |-> data, expires |-> Expiry(now)])]
        ELSE [logged EXCEPT !.net = @ + 1, !.threw = TRUE,
                            !.err = AxiosError(outcome, body),
                            !.cache = Sweep(st.cache, now)]

\* The answers the HTTP attempts of one request() receive when the remote API answers
\* the first `limited` attempts with 429 and every later one with `answer`.
RECURSIVE request(_, _, _)
request(limited, answer, retries) ==
    LET got == IF limited > 0 THEN AnswerOf(Response(429)) ELSE answer
    IN  IF ShouldRetry(AxiosError(got[1], got[2]), retries)
        THEN <<got>> \o request(IF limited > 0 THEN limited - 1 ELSE 0, answer,
                                NextRetries(retries))
        ELSE <<got>>

\* await api.put / post / delete
ApiMutate(st, verb, path, answer) ==
    LET Ended(logged, attempts) ==
            IF IsSuccess(attempts[Len(attempts)][1])
            THEN [logged EXCEPT !.val = <<>>, !.tries = Append(@, attempts)]
            ELSE [logged EXCEPT !.threw = TRUE, !.tries = Append(@, attempts),
                                !.err = AxiosError(attempts[Len(attempts)][1],
                                                   attempts[Len(attempts)][2])]
    IN  Ended([st EXCEPT !.log = Append(@, ApiCall(verb, path, NoParams)),
                         !.net = @ + 1, !.cache = CacheAfterMutate(st.cache)],
              request(st.limited, answer, DefaultRetries))

\* throw new Error(message)
Throw(st, message) == [st EXCEPT !.threw = TRUE, !.err = PlainError(message)]

----------------------------------------------------------------------------
(* Resolvers *)

\* A candidate listed by name alone.
NameEmail_nameOnly(u) == [name |-> u.name, email |-> <<>>]

\* `${u.name} (${u.email})`
NameEmail(u) == [name |-> u.name, email |-> u.email]
\* A channel listed by its identifier.
NameOf_id(c) == c.id

NameOf(c) == c.name

\* A channel found by the first name that contains the argument.
resolveChannel_substring(st, nameOrId, answer) ==
    LET Match(got, match) ==
            IF got.threw THEN got
            ELSE IF match # 0 THEN [got EXCEPT !.val = got.val[match].id]
            ELSE Throw(got, [kind |-> "No channel named", input |-> nameOrId,
                             hint |-> "Available", list |-> Map(got.val, NameOf)])
        Find(got) ==
            Match(got, IF got.threw THEN 0
                       ELSE FindIndex(got.val,
                               LAMBDA c : includes(toLowerCase(c.name),
                                                   toLowerCase(nameOrId))))
    IN  IF UUID_RE(nameOrId)
        THEN [st EXCEPT !.val = nameOrId]
        ELSE Find(ApiGet(st, <<"/channels">>, NoParams, answer))

resolveChannel(st, nameOrId, answer) ==
    LET Similar(channels) ==
            Map(Filter(channels,
                       LAMBDA c : includes(toLowerCase(c.name), toLowerCase(nameOrId))),
                NameOf)
        NoChannel(got, similar) ==
            Throw(got, [kind |-> "No channel named", input |-> nameOrId,
                        hint |-> IF Len(similar) # 0 THEN "Did you mean" ELSE "Available",
                        list |-> IF Len(similar) # 0 THEN similar
                                 ELSE Map(got.val, NameOf)])
        Match(got, match) ==
            IF got.threw THEN got
            ELSE IF match # 0 THEN [got EXCEPT !.val = got.val[match].id]
            ELSE NoChannel(got, Similar(got.val))
        Find(got) ==
            Match(got, IF got.threw THEN 0
                       ELSE FindIndex(got.val,
                               LAMBDA c : toLowerCase(c.name) = toLowerCase(nameOrId)))
    IN  IF UUID_RE(nameOrId)
        THEN [st EXCEPT !.val = nameOrId]
        ELSE Find(ApiGet(st, <<"/channels">>, NoParams, answer))

\* An email looked up in the users collection.
resolveUser_emailInUsers(st, nameOrEmailOrId, answer) ==
    LET First(got, results) ==
            IF got.threw THEN got
            ELSE IF Len(results) = 0
            THEN Throw(got, [kind |-> "No user found with email",
                             input |-> nameOrEmailOrId, hint |-> "", list |-> <<>>])
            ELSE [got EXCEPT !.val = results[1]]
        Lookup(got) ==
            First(got, IF got.threw THEN <<>>
                       ELSE Filter(got.val, LAMBDA u : u.email = nameOrEmailOrId))
    IN  IF UUID_RE(nameOrEmailOrId)
        THEN ApiGet(st, <<"/users/", nameOrEmailOrId>>, NoParams, answer)
        ELSE Lookup(ApiGet(st, <<"/users">>, NoParams, answer))

resolveUser(st, nameOrEmailOrId, answer) ==
    LET First(got) ==
            IF got.threw THEN got
            ELSE IF Len(got.val) = 0
            THEN Throw(got, [kind |-> "No user found with email",
                             input |-> nameOrEmailOrId, hint |-> "", list |-> <<>>])
            ELSE [got EXCEPT !.val = got.val[1]]
        Pick(got, matches) ==
            IF got.threw THEN got
            ELSE IF Len(matches) = 0
            THEN Throw(got, [kind |-> "No user found matching",
                             input |-> nameOrEmailOrId, hint |-> "", list |-> <<>>])
            ELSE IF Len(matches) = 1 THEN [got EXCEPT !.val = matches[1]]
            ELSE Throw(got, [kind |-> "Multiple users match", input |-> nameOrEmailOrId,
                             hint |-> "Be more specific or use email/ID.",
                             list |-> Map(matches, NameEmail)])
        Search(got) ==
            Pick(got, IF got.threw THEN <<>>
                      ELSE Filter(got.val,
                              LAMBDA u : includes(toLowerCase(u.name),
                                                  toLowerCase(nameOrEmailOrId))))
    IN  IF UUID_RE(nameOrEmailOrId)
        THEN ApiGet(st, <<"/users/", nameOrEmailOrId>>, NoParams, answer)
        ELSE IF includes(nameOrEmailOrId, <<"@">>)
        THEN First(ApiGet(st, <<"/find/users">>,
                          Params(<< <<"email", nameOrEmailOrId>> >>), answer))
        ELSE Search(ApiGet(st, <<"/users">>, NoParams, answer))

----------------------------------------------------------------------------
(* One resolver call on a community and a cache drawn at the start *)

MaxUsers == 2        \* users, and channels, the community holds

\* An identifier whose hexadecimal digits are all `ch`.
Uuid(ch) == [i \in 1..UuidLength |-> IF i \in UuidHyphens THEN "-" ELSE ch]

User(id, name, email) == [id |-> id, name |-> name, email |-> email]
UserPool ==
    {User(Uuid("a"), <<"A", "l", "e", "x", " ", "C">>, <<"a", "c", "@", "x">>),
     User(Uuid("1"), <<"a", "l", "e", "x", " ", "R">>, <<"a", "r", "@", "x">>),
     User(Uuid("2"), <<"B", "o">>, <<"b", "o", "@", "x">>),
     User(Uuid("3"), <<"B", "o", "b">>, <<"b", "o", "@", "x">>)}

Channel(id, name) == [id |-> id, name |-> name]
ChannelPool ==
    {Channel(Uuid("c"), <<"D", "e", "v">>),
     Channel(Uuid("d"), <<"d", "e", "v", "2">>),
     Channel(Uuid("e"), <<"O", "p", "s">>)}

\* The lists of at most n distinct members of a pool, in every order.
Lists(pool, n) ==
    UNION {{l \in [1..k -> pool] : \A i, j \in 1..k : i # j => l[i] # l[j]} : k \in 0..n}

\* The communities a resolver is tried on: it reads the users or the channels, never both.
Dirs == {[NoDir EXCEPT !.users = u] : u \in Lists(UserPool, MaxUsers)}
        \cup {[NoDir EXCEPT !.channels = c] : c \in Lists(ChannelPool, MaxUsers)}

\* Arguments: identifiers in both cases, strings that nearly are identifiers, names in
\* several spellings, an email, the empty string.
IdInputs == {Uuid("a"), Uuid("A"), Uuid("9"), Uuid("c")}
NearIdInputs == {Uuid("g"), SubSeq(Uuid("a"), 1, 35), Uuid("a") \o <<"0">>}
UserInputs ==
    IdInputs \cup NearIdInputs \cup
    {<<"a", "l", "e", "x">>, <<"A", "L", "E", "X">>, <<"b", "o">>, <<"b", "o", "b">>,
     <<"z", "e", "d">>, <<"b", "o", "@", "x">>, <<"n", "o", "@", "x">>, <<>>}
ChannelInputs ==
    IdInputs \cup NearIdInputs \cup
    {<<"d", "e", "v">>, <<"D", "E", "V", "2">>, <<"d", "e">>, <<"z", "z">>, <<>>}

\* The GET requests a resolver may make for an argument.
ResolverGets(input) ==
    {<<(<<"/users">>), NoParams>>, <<(<<"/channels">>), NoParams>>,
     <<(<<"/users/", input>>), NoParams>>,
     <<(<<"/find/users">>), Params(<< <<"email", input>> >>)>>}

\* The cache after earlier successful gets of these requests at instant t.
Warm(gets, t) ==
    [k \in {cacheKey("GET", g[1], g[2]) : g \in {x \in gets : Exists(x[1])}} |->
        LET g == CHOOSE x \in gets : cacheKey("GET", x[1], x[2]) = k
        IN  [data |-> Upstream(g[1], g[2]), expires |-> Expiry(t)]]

InitResolve ==
    /\ now \in {0, cacheTTL}
    /\ dir \in Dirs
    /\ req \in {[fn |-> "resolveUser", input |-> i] : i \in UserInputs}
          \cup {[fn |-> "resolveChannel", input |-> i] : i \in ChannelInputs}
    /\ cache \in {EmptyCache, Warm(ResolverGets(req.input), 0)}
    /\ run = NoRun
    /\ calls = [c \in Slots |-> IdleCall]
    /\ last = IdleCall
    /\ served = NotServed
    /\ fills = [k \in Keys |-> NoFill]
    /\ epoch = 0
    /\ nextId = 0
    /\ prior = [k \in Keys |-> 0]
    /\ hist = [i \in Ids |-> NoHist]
    /\ mutPending = FALSE
    /\ width = 1
    /\ cap = 0
    /\ quota = 0

\* What the remote API answers a resolver's request, retries included.
ResolveAnswers == {AnswerOf(o) : o \in {Response(200), Response(404), Response(429), TimedOut}}

\* The record of a finished invocation: the api calls it made, how many reached the
\* network, whether an error was raised inside it, whether it threw to its caller,
\* the error, the value returned, and the cache it started from.
Finished(before, st, raised, threw, err, val) ==
    [done |-> TRUE, log |-> st.log, net |-> st.net, raised |-> raised, threw |-> threw,
     err |-> err, val |-> val, before |-> before]

Resolve(fn, answer) ==
    LET End(st) ==
            /\ run' = Finished(cache, st, st.threw, st.threw, st.err, st.val)
            /\ cache' = st.cache
    IN  /\ req.fn = fn
        /\ ~run.done
        /\ End(IF fn = "resolveUser"
               THEN resolveUser(ApiState(cache), req.input, answer)
               ELSE resolveChannel(ApiState(cache), req.input, answer))
        /\ UNCHANGED <<now, calls, last, served, fills, epoch, nextId, prior, hist,
                       mutPending, width, cap, quota, dir, req>>

ResolveNext ==
    \/ \E a \in ResolveAnswers : Resolve("resolveUser", a)
    \/ \E a \in ResolveAnswers : Resolve("resolveChannel", a)

ResolveSpec == InitResolve /\ [][ResolveNext]_vars

----------------------------------------------------------------------------
(* Mode handlers: what each validates, and the api calls it then awaits in order *)

\* One awaited operation of a handler. `guard`: a failure is swallowed by a catch around
\* the call. `group`: the Promise.all the call is part of (0: awaited on its own);
\* the calls of one Promise.all are all issued even when one of them fails.
\* `after`: the earlier step whose result the call is made from (0: none).
\* `dyn`: the path embeds the id the resolver returned.
Step(op, path, params) ==
    [op |-> op, path |-> path, params |-> params, input |-> <<>>,
     guard |-> FALSE, group |-> 0, after |-> 0, dyn |-> FALSE]
GET(path) == Step("GET", path, NoParams)
PUT(path) == Step("PUT", path, NoParams)
POST(path) == Step("POST", path, NoParams)
DELETE(path) == Step("DELETE", path, NoParams)
ResolveStep(fn, input) == [Step(fn, <<>>, NoParams) EXCEPT !.input = input]
Guarded(step) == [step EXCEPT !.guard = TRUE]
InGroup(step, g) == [step EXCEPT !.group = g]
After(step, i) == [step EXCEPT !.after = i]

\* What a handler does with its parameters: an error envelope it returns at once
\* (`names`: the parameters its message names), or the calls it goes on to make.
Calls(steps) == [invalid |-> FALSE, text |-> "", names |-> {}, steps |-> steps]
Required(names) == [invalid |-> TRUE, text |-> "Required", names |-> names, steps |-> <<>>]
Unknown(what) == [invalid |-> TRUE, text |-> what, names |-> {}, steps |-> <<>>]

\* !params.<field>: the field is absent, or empty, or zero
Has(q, field) == field \in q.has

\* params.action ?? fallback
ActionOr(q, fallback) == IF q.action = "none" THEN fallback ELSE q.action

\* One call per channel of the first `limit` channels, each inside its own try/catch.
Take(list, limit) == SubSeq(list, 1, IF Len(list) < limit THEN Len(list) ELSE limit)
PerChannel(limit, g, after) ==
    Map(Take(dir.channels, limit),
        LAMBDA ch : After(InGroup(Guarded(GET(<<"/channels/", ch.id, "/threads">>)), g), after))
PerEvent(g, after) ==
    Map(dir.events,
        LAMBDA e : After(InGroup(Guarded(GET(<<"/events/", e.id, "/attendance">>)), g), after))

DashboardFanOut == 10
SearchFanOut == 10
EngagementFanOut == 10
SegmentsFanOut == 5

handleDashboard(q) ==
    Calls(<<InGroup(GET(<<"/users">>), 1), InGroup(GET(<<"/channels">>), 1),
            InGroup(GET(<<"/events">>), 1), InGroup(GET(<<"/courses">>), 1),
            InGroup(Guarded(GET(<<"/notifications">>)), 1)>>
          \o PerChannel(DashboardFanOut, 2, 2))

handleMembers(q) == Calls(<<GET(<<"/users">>)>>)

handleThreads(q) ==
    IF Has(q, "thread_id")
    THEN Calls(<<GET(<<"/threads/", SampleId>>), GET(<<"/users">>)>>)
    ELSE IF ~Has(q, "channel") THEN Required({"channel", "thread_id"})
    ELSE Calls(<<ResolveStep("resolveChannel", q.channel),
                 [GET(<<"/channels/", "/threads">>) EXCEPT !.dyn = TRUE],
                 GET(<<"/users">>)>>)

\* A handlePost that resolves the channel before it looks at `text`.
handlePost_resolveFirst(q) ==
    IF Has(q, "thread_id") /\ Has(q, "text") THEN Calls(<<PUT(<<"/comments">>)>>)
    ELSE IF ~Has(q, "channel") THEN Required({"channel", "thread_id"})
    ELSE IF ~Has(q, "text")
    THEN [Required({"text"}) EXCEPT !.steps = <<ResolveStep("resolveChannel", q.channel)>>]
    ELSE Calls(<<ResolveStep("resolveChannel", q.channel), PUT(<<"/threads">>)>>)

handlePost(q) ==
    IF ~Has(q, "text") THEN Required({"text"})
    ELSE IF Has(q, "thread_id") THEN Calls(<<PUT(<<"/comments">>)>>)
    ELSE IF ~Has(q, "channel") THEN Required({"channel", "thread_id"})
    ELSE Calls(<<ResolveStep("resolveChannel", q.channel), PUT(<<"/threads">>)>>)

\* A send that opens the chat with one call and posts the message with another.
handleDm_chatFirst(q) ==
    LET action == ActionOr(q, "send")
    IN  IF action = "read"
        THEN IF ~Has(q, "chat_id") THEN Required({"chat_id"})
             ELSE Calls(<<GET(<<"/directMessages/", SampleId>>)>>)
        ELSE IF action = "create_chat"
        THEN IF ~Has(q, "to") THEN Required({"to"})
             ELSE Calls(<<ResolveStep("resolveUser", q.to), PUT(<<"/directChats">>)>>)
        ELSE IF ~Has(q, "to") \/ ~Has(q, "text") THEN Required({"to", "text"})
        ELSE Calls(<<ResolveStep("resolveUser", q.to), PUT(<<"/directChats">>),
                     PUT(<<"/directMessages">>)>>)

handleDm(q) ==
    LET action == ActionOr(q, "send")
    IN  IF action = "read"
        THEN IF ~Has(q, "chat_id") THEN Required({"chat_id"})
             ELSE Calls(<<GET(<<"/directMessages/", SampleId>>)>>)
        ELSE IF action = "create_chat"
        THEN IF ~Has(q, "to") THEN Required({"to"})
             ELSE Calls(<<ResolveStep("resolveUser", q.to), PUT(<<"/directChats">>)>>)
        ELSE IF ~Has(q, "to") \/ ~Has(q, "text") THEN Required({"to", "text"})
        ELSE Calls(<<ResolveStep("resolveUser", q.to), PUT(<<"/directMessages">>)>>)

handleEvents(q) ==
    LET action == ActionOr(q, "list")
    IN  IF action = "get"
        THEN IF ~Has(q, "event_id") THEN Required({"event_id"})
             ELSE Calls(<<InGroup(GET(<<"/events/", SampleId>>), 1),
                          InGroup(GET(<<"/events/", SampleId, "/instances">>), 1)>>)
        ELSE IF action = "attendance"
        THEN IF ~Has(q, "event_id") THEN Required({"event_id"})
             ELSE Calls(<<GET(<<"/events/", SampleId, "/attendance">>)>>)
        ELSE IF action = "create"
        THEN IF ~Has(q, "event_name") \/ ~Has(q, "start_time") \/ ~Has(q, "duration")
             THEN Required({"event_name", "start_time", "duration"})
             ELSE Calls(<<PUT(<<"/events">>)>>)
        ELSE Calls(<<Step("GET", <<"/events">>,
                          Params(IF Has(q, "group") THEN << <<"groupID", SampleId>> >>
                                                    ELSE <<>>))>>)

handleContent(q) ==
    LET action == ActionOr(q, "courses")
    IN  CASE action = "courses" -> Calls(<<GET(<<"/courses">>)>>)
          [] action = "lesson" ->
                IF ~Has(q, "lesson_id") THEN Required({"lesson_id"})
                ELSE Calls(<<GET(<<"/lessons/", SampleId>>)>>)
          [] action = "documents" ->
                Calls(<<Step("GET", <<"/documents">>,
                             Params(IF Has(q, "document_id")
                                    THEN << <<"startingAfter", SampleId>> >> ELSE <<>>))>>)
          [] action = "document" ->
                IF ~Has(q, "document_id") THEN Required({"document_id"})
                ELSE Calls(<<GET(<<"/documents/", SampleId>>)>>)
          [] action = "create_lesson" ->
                IF ~Has(q, "title") \/ ~Has(q, "content_text")
                THEN Required({"title", "content_text"})
                ELSE Calls(<<PUT(<<"/lessons">>)>>)
          [] action = "update_lesson" ->
                IF ~Has(q, "lesson_id") THEN Required({"lesson_id"})
                ELSE Calls(<<POST(<<"/lessons/", SampleId>>)>>)
          [] action = "videos" -> Calls(<<GET(<<"/videos">>)>>)
          [] OTHER -> Unknown("Unknown content action")

\* fetchAllThreads(api, cap) as part of the Promise.all g, its /channels call being step i
fetchAllThreads(limit, g, i) ==
    <<InGroup(GET(<<"/channels">>), g)>> \o PerChannel(limit, g, i)

Metrics ==
    {"engagement_scores", "channel_activity", "event_metrics", "course_progress",
     "member_segments", "growth", "top_contributors"}

handleAnalytics(q) ==
    CASE q.metric = "none" -> Required({"metric"})
      [] q.metric = "engagement_scores" ->
            LET first == <<InGroup(GET(<<"/users">>), 1)>>
                         \o fetchAllThreads(EngagementFanOut, 1, 2)
            IN  Calls(first \o <<InGroup(GET(<<"/events">>), 1)>>
                      \o PerEvent(2, Len(first) + 1))
      [] q.metric = "channel_activity" ->
            Calls(<<GET(<<"/channels">>)>> \o PerChannel(Len(dir.channels), 1, 1))
      [] q.metric = "event_metrics" -> Calls(<<GET(<<"/events">>)>> \o PerEvent(1, 1))
      [] q.metric = "course_progress" ->
            Calls(<<InGroup(GET(<<"/courses">>), 1), InGroup(GET(<<"/users">>), 1)>>)
      [] q.metric = "member_segments" ->
            Calls(<<InGroup(GET(<<"/users">>), 1)>> \o fetchAllThreads(SegmentsFanOut, 1, 2))
      [] q.metric = "growth" -> Calls(<<GET(<<"/users">>)>>)
      [] q.metric = "top_contributors" ->
            Calls(<<GET(<<"/channels">>)>> \o PerChannel(Len(dir.channels), 1, 1)
                  \o <<GET(<<"/users">>)>>)
      [] OTHER -> Unknown("Unknown metric")

\* Every fetch of search carries its own catch; the thread fetches follow /channels.
handleSearch(q) ==
    IF ~Has(q, "query") THEN Required({"query"})
    ELSE Calls(<<InGroup(Guarded(GET(<<"/users">>)), 1),
                 InGroup(Guarded(GET(<<"/channels">>)), 1)>>
               \o PerChannel(SearchFanOut, 1, 2)
               \o <<InGroup(Guarded(GET(<<"/documents">>)), 1),
                    InGroup(Guarded(GET(<<"/events">>)), 1)>>)

\* The actions of handleManage in the order it tests them: the parameters each needs
\* (one of every set in `need`), and the call it makes.
Row(action, need, step) == [action |-> action, need |-> need, step |-> step]
ManageRows ==
    <<Row("create_user", {{"email"}, {"name"}}, PUT(<<"/users">>)),
      Row("update_user", {{"user_id"}}, POST(<<"/users">>)),
      Row("delete_user", {{"user_id"}}, DELETE(<<"/users/", SampleId>>)),
      Row("reactivate_user", {{"user_id"}}, POST(<<"/users/reactivate">>)),
      Row("create_pending_user", {{"email"}}, PUT(<<"/pendingUser">>)),
      Row("create_group", {{"name"}}, PUT(<<"/groups">>)),
      Row("update_group", {{"group_id"}}, POST(<<"/groups/", SampleId>>)),
      Row("delete_group", {{"group_id"}}, DELETE(<<"/groups/", SampleId>>)),
      Row("add_to_group", {{"group_id"}, {"user_id"}},
          PUT(<<"/groups/", SampleId, "/memberships">>)),
      Row("remove_from_group", {{"group_id"}, {"user_id"}},
          DELETE(<<"/groups/", SampleId, "/memberships/", SampleId>>)),
      Row("create_channel", {{"name"}}, PUT(<<"/channels">>)),
      Row("update_channel", {{"channel_id"}}, POST(<<"/channels/", SampleId>>)),
      Row("delete_channel", {{"channel_id"}}, DELETE(<<"/channels/", SampleId>>)),
      Row("create_channel_category", {{"name"}}, PUT(<<"/channelCategories">>)),
      Row("update_channel_category", {{"updates_id", "channel_id"}},
          POST(<<"/channelCategories/", SampleId>>)),
      Row("delete_channel_category", {{"updates_id", "channel_id"}},
          DELETE(<<"/channelCategories/", SampleId>>)),
      Row("list_invitations", {}, GET(<<"/invitations">>)),
      Row("create_invitation", {}, PUT(<<"/invitations">>)),
      Row("update_invitation", {{"invitation_id"}}, POST(<<"/invitations/", SampleId>>)),
      Row("list_webhooks", {}, GET(<<"/webhooks">>)),
      Row("create_webhook", {{"webhook_url"}, {"webhook_action"}}, PUT(<<"/webhooks">>)),
      Row("delete_webhook", {{"updates_id", "channel_id"}},
          DELETE(<<"/webhooks/", SampleId>>)),
      Row("create_voice_channel", {{"name"}}, PUT(<<"/voiceChannels">>)),
      Row("update_voice_channel", {{"updates_id", "channel_id"}},
          POST(<<"/voiceChannels/", SampleId>>)),
      Row("list_roles", {}, GET(<<"/roles">>)),
      Row("list_offers", {}, GET(<<"/offers">>)),
      Row("list_signup_pages", {}, GET(<<"/signup_pages">>))>>

ManageRow(action) == FindIndex(ManageRows, LAMBDA r : r.action = action)

handleManage(q) ==
    LET Check(row) ==
            IF \E alt \in row.need : alt \cap q.has = {} THEN Required(UNION row.need)
            ELSE Calls(<<row.step>>)
        Lookup(i) ==
            IF i = 0 THEN Unknown("Unknown manage action") ELSE Check(ManageRows[i])
    IN  IF q.action = "none" THEN Required({"action"}) ELSE Lookup(ManageRow(q.action))

Modes ==
    {"dashboard", "members", "threads", "post", "dm", "events", "content", "analytics",
     "search", "manage"}

\* The switch of toolHandler.
Handler(q) ==
    CASE q.mode = "dashboard" -> handleDashboard(q)
      [] q.mode = "members" -> handleMembers(q)
      [] q.mode = "threads" -> handleThreads(q)
      [] q.mode = "post" -> handlePost(q)
      [] q.mode = "dm" -> handleDm(q)
      [] q.mode = "events" -> handleEvents(q)
      [] q.mode = "content" -> handleContent(q)
      [] q.mode = "analytics" -> handleAnalytics(q)
      [] q.mode = "search" -> handleSearch(q)
      [] q.mode = "manage" -> handleManage(q)
      [] OTHER -> Unknown("Unknown mode")

----------------------------------------------------------------------------
(* Running a handler *)

\* The handler while it runs: the api as it sees it, the steps that succeeded, whether
\* an error escaped (the first one, and the Promise.all it escaped from), the id resolved.
Running(st) ==
    [api |-> st, ok |-> {}, raised |-> FALSE, err |-> NoError, rgroup |-> 0,
     resolved |-> <<>>]

\* The steps from the i-th on. `chaos` says which of the steps the remote API fails,
\* and how.
RECURSIVE Exec(_, _, _, _)
Exec(steps, i, hs, chaos) ==
    LET Do(s, st, path, answer) ==
            CASE s.op = "GET" -> ApiGet(st, path, s.params, answer)
              [] s.op \in Mutators -> ApiMutate(st, s.op, path, answer)
              [] s.op = "resolveUser" -> resolveUser(st, s.input, answer)
              [] s.op = "resolveChannel" -> resolveChannel(st, s.input, answer)
        Settle(s, got) ==
            IF ~got.threw
            THEN [hs EXCEPT !.api = got, !.ok = @ \cup {i},
                            !.resolved = IF s.op = "resolveUser" THEN got.val.id
                                         ELSE IF s.op = "resolveChannel" THEN got.val
                                         ELSE @]
            ELSE IF s.guard THEN [hs EXCEPT !.api = got]
            ELSE [hs EXCEPT !.api = got, !.raised = TRUE,
                            !.err = IF hs.raised THEN @ ELSE got.err,
                            !.rgroup = IF hs.raised THEN @ ELSE s.group]
        One(s) ==
            IF \/ s.after # 0 /\ s.after \notin hs.ok
               \/ hs.raised /\ (s.group = 0 \/ s.group # hs.rgroup)
            THEN hs
            ELSE Settle(s, Do(s, [hs.api EXCEPT !.threw = FALSE],
                              IF s.dyn THEN <<s.path[1], hs.resolved, s.path[2]>>
                                       ELSE s.path,
                              IF i \in chaos.bad THEN AnswerOf(chaos.fault)
                                                 ELSE AnswerOf(Response(200))))
    IN  IF i > Len(steps) THEN hs
        ELSE Exec(steps, i + 1, One(steps[i]), chaos)

\* The body of the handler: validation, the calls, then building the answer, which
\* throws a TypeError when `chaos.crash` says the data fetched is not what the code expects.
RunHandler(q, st, chaos) ==
    LET Build(plan, hs) ==
            IF ~hs.raised /\ ~plan.invalid /\ chaos.crash /\ hs.ok # {}
            THEN [hs EXCEPT !.raised = TRUE, !.err = PlainError("TypeError")]
            ELSE hs
        Run(plan) == Build(plan, Exec(plan.steps, 1, Running(st), chaos))
    IN  Run(Handler(q))

\* JSON.stringify({ error: ... }) and the other strings a handler returns
Envelope(text, names, detail) ==
    [error |-> TRUE, text |-> text, names |-> names, detail |-> detail]
Answer == [error |-> FALSE, text |-> "", names |-> {}, detail |-> Msg("", 0, "")]

\* What toolHandler hands back to its caller: a string it returns, or an error it throws.
Returned(hs, result) == [returned |-> TRUE, result |-> result, hs |-> hs]
Thrown(hs) == [returned |-> FALSE, result |-> Answer, hs |-> hs]

\* A toolHandler without its try/catch.
toolHandler_noCatch(q, st, chaos) ==
    LET Switch(plan, hs) ==
            IF plan.invalid
            THEN Returned(hs, Envelope(plan.text, plan.names, Msg("", 0, "")))
            ELSE IF hs.raised THEN Thrown(hs)
            ELSE Returned(hs, Answer)
    IN  Switch(Handler(q), RunHandler(q, st, chaos))

toolHandler(q, st, chaos) ==
    LET Switch(plan, hs) ==
            IF plan.invalid
            THEN Returned(hs, Envelope(plan.text, plan.names, Msg("", 0, "")))
            ELSE IF hs.raised
            THEN Returned(hs, Envelope("handleApiError", {}, handleApiError(hs.err)))
            ELSE Returned(hs, Answer)
    IN  Switch(Handler(q), RunHandler(q, st, chaos))

----------------------------------------------------------------------------
(* One tool call on a sample community and a cache drawn at the start *)

SampleDir ==
    [users |-> <<User(Uuid("a"), <<"A", "l", "e", "x", " ", "C">>, <<"a", "c", "@", "x">>),
                 User(Uuid("1"), <<"a", "l", "e", "x", " ", "R">>, <<"a", "r", "@", "x">>)>>,
     channels |-> <<Channel(Uuid("c"), <<"D", "e", "v">>),
                    Channel(Uuid("d"), <<"d", "e", "v", "2">>)>>,
     events |-> <<[id |-> SampleId]>>]

\* Values of `channel` and of `to`: an id, names that match one, several or no entry,
\* an email.
ChannelArgs == {Uuid("c"), <<"d", "e", "v">>, <<"z", "z">>}
ToArgs == {Uuid("a"), Uuid("9"), <<"a", "l", "e", "x">>, <<"a", "l", "e", "x", " ", "c">>,
           <<"z", "e", "d">>, <<"a", "c", "@", "x">>}

\* The values of `action` (of `metric` for analytics) a mode is called with:
\* none, the ones it knows, one it does not.
Selectors(mode) ==
    {"none", "bogus"} \cup
    CASE mode = "dm" -> {"read", "create_chat", "send"}
      [] mode = "events" -> {"get", "attendance", "create", "list"}
      [] mode = "content" -> {"courses", "lesson", "documents", "document",
                              "create_lesson", "update_lesson", "videos"}
      [] mode = "analytics" -> Metrics
      [] mode = "manage" -> {ManageRows[i].action : i \in 1..Len(ManageRows)}
      [] OTHER -> {}

\* The parameters whose presence the handler looks at.
Reads(mode, sel) ==
    CASE mode \in {"post"} -> {"text", "thread_id", "channel"}
      [] mode = "threads" -> {"thread_id", "channel"}
      [] mode = "search" -> {"query"}
      [] mode = "dm" -> IF sel = "read" THEN {"chat_id"}
                        ELSE IF sel = "create_chat" THEN {"to"} ELSE {"to", "text"}
      [] mode = "events" -> IF sel \in {"get", "attendance"} THEN {"event_id"}
                            ELSE IF sel = "create"
                            THEN {"event_name", "start_time", "duration"} ELSE {"group"}
      [] mode = "content" -> IF sel \in {"lesson", "update_lesson"} THEN {"lesson_id"}
                             ELSE IF sel \in {"document", "documents"} THEN {"document_id"}
                             ELSE IF sel = "create_lesson" THEN {"title", "content_text"}
                             ELSE {}
      [] mode = "manage" -> IF ManageRow(sel) = 0 THEN {}
                            ELSE UNION ManageRows[ManageRow(sel)].need
      [] OTHER -> {}

ToolReq(mode, sel, has, channel, to) ==
    [fn |-> "tool", mode |-> mode, has |-> has, channel |-> channel, to |-> to,
     action |-> IF mode = "analytics" THEN "none" ELSE sel,
     metric |-> IF mode = "analytics" THEN sel ELSE "none"]

ToolReqs ==
    UNION {UNION {UNION {
        {ToolReq(m, a, P, c, t) :
            c \in IF "channel" \in P THEN ChannelArgs ELSE {<<>>},
            t \in IF "to" \in P THEN ToArgs ELSE {<<>>}}
        : P \in SUBSET Reads(m, a)} : a \in Selectors(m)} : m \in Modes \cup {"bogus"}}

\* The GET requests of the handlers that a cache may already hold.
ToolGets ==
    {<<(<<"/users">>), NoParams>>, <<(<<"/channels">>), NoParams>>,
     <<(<<"/events">>), NoParams>>, <<(<<"/courses">>), NoParams>>,
     <<(<<"/users/", Uuid("a")>>), NoParams>>,
     <<(<<"/channels/", Uuid("c"), "/threads">>), NoParams>>}

InitTool ==
    /\ now = 0
    /\ dir = SampleDir
    /\ req \in ToolReqs
    /\ cache \in {EmptyCache, Warm(ToolGets, 0)}
    /\ run = NoRun
    /\ calls = [c \in Slots |-> IdleCall]
    /\ last = IdleCall
    /\ served = NotServed
    /\ fills = [k \in Keys |-> NoFill]
    /\ epoch = 0
    /\ nextId = 0
    /\ prior = [k \in Keys |-> 0]
    /\ hist = [i \in Ids |-> NoHist]
    /\ mutPending = FALSE
    /\ width = 1
    /\ cap = 0
    /\ quota = 0

MaxLimited == 4      \* 429 answers the remote API gives before its answer to a call

\* How the remote API fails the steps it fails.
Faults == {Response(404), Response(429), Response(500), TimedOut, NetworkError}

\* Which of the handler's steps the remote API fails and how, and whether the data
\* it returns is what the code expects.
Chaos(steps) ==
    {[bad |-> b, fault |-> f, crash |-> x, limited |-> n] :
        b \in SUBSET (1..Len(steps)), f \in Faults, x \in BOOLEAN, n \in 0..MaxLimited}

ToolCall(chaos) ==
    LET End(out) ==
            /\ run' = Finished(cache, out.hs.api, out.hs.raised, ~out.returned,
                               out.hs.err, out.result)
                       @@ [ok |-> out.hs.ok, tries |-> out.hs.api.tries]
            /\ cache' = out.hs.api.cache
        Mutating(steps) == \E i \in 1..Len(steps) : steps[i].op \in Mutators
    IN  /\ req.fn = "tool"
        /\ ~run.done
        /\ chaos.bad = {} => chaos.fault = TimedOut
        /\ chaos.limited > 0 => Mutating(Handler(req).steps)
        /\ End(toolHandler(req, [ApiState(cache) EXCEPT !.limited = chaos.limited], chaos))
        /\ UNCHANGED <<now, calls, last, served, fills, epoch, nextId, prior, hist,
                       mutPending, width, cap, quota, dir, req>>

ToolNext == \E chaos \in Chaos(IF req.fn = "tool" THEN Handler(req).steps ELSE <<>>) :
                ToolCall(chaos)

ToolSpec == InitTool /\ [][ToolNext]_vars

----------------------------------------------------------------------------
(* Properties of the cache *)

\* The calls that are waiting on the network.
Busy == {c \in Slots : calls[c].pc # "idle"}

\* A get found the entry fetched by call `first` missing or stale although it was made
\* less than ttl after `first`, which returned a payload, with no mutating call between.
FetchedAgain(call) ==
    /\ call.method = "GET"
    /\ call.ref # 0
    /\ hist[call.ref].state = "ok"
    /\ call.startedAt - hist[call.ref].startedAt < cacheTTL

\* C1: of two gets with the same method, path and serialised query and no mutating call
\* between them, the second, made within ttl of the first, issues no network request and
\* returns the payload the first returned.
CE_C1 ==
    /\ \A c \in Busy : ~FetchedAgain(calls[c])
    /\ (served.valid /\ served.ref # 0 /\ hist[served.ref].state = "ok"
            /\ served.at - hist[served.ref].startedAt < cacheTTL)
         => served.data = Payload(served.key, served.ref)

\* C2: every put, post and delete empties the cache before its request is issued, so the
\* next get, whatever its path and query, is not answered from the cache.
CE_C2 ==
    /\ \A c \in Busy : calls[c].method \in Mutators => calls[c].cleared
    /\ served.valid => ~served.afterMut

\* C3: a get made after a mutating call invalidated the cache is never served a payload
\* fetched by a request that was issued before that invalidation.
CE_C3 == served.valid => served.fill.epoch >= served.epoch

----------------------------------------------------------------------------
(* Properties of the retry loop *)

All429(call) == \A i \in 1..Len(call.outcomes) : call.outcomes[i] = Response(429)

RECURSIVE SumSeq(_)
SumSeq(s) == IF s = <<>> THEN 0 ELSE Head(s) + SumSeq(Tail(s))

\* HTTP attempts a call has made so far.
Attempts(call) == Len(call.outcomes) + (IF call.pc = "flight" THEN 1 ELSE 0)

BackoffSchedule == <<BackoffBase, 2 * BackoffBase, 4 * BackoffBase>>

RateLimited == Msg("Rate limit exceeded after retries. Wait and try again.", 0, "")

\* C4: a get answered 429 on every attempt makes exactly 4 attempts, waits 1s, 2s and 4s
\* before the 2nd, 3rd and 4th (at least 7 s in all), then fails, and handleApiError
\* reports the failure as the rate-limit condition.
Th_C4 ==
    /\ \A c \in Busy :
          (calls[c].method = "GET" /\ All429(calls[c])) =>
             /\ Attempts(calls[c]) <= DefaultRetries + 1
             /\ calls[c].delays = SubSeq(BackoffSchedule, 1, Len(calls[c].delays))
             /\ calls[c].pc = "flight" => calls[c].slept >= SumSeq(calls[c].delays)
    /\ (last.pc = "done" /\ last.method = "GET" /\ All429(last)) =>
          /\ Len(last.outcomes) = 4
          /\ last.delays = <<1000, 2000, 4000>>
          /\ last.slept >= 7000
          /\ ~last.ok
          /\ handleApiError(last.err) = RateLimited

Wit_C4 ==
    /\ last.pc = "done" /\ last.method = "GET"
    /\ last.outcomes = <<Response(429), Response(429), Response(429), Response(429)>>

\* C5: only a 429 response is retried: for every verb, the first attempt that ends in a
\* success, another error status or a transport failure ends the call with that outcome,
\* with no further attempt and no delay.
Th_C5 ==
    /\ \A c \in Busy :
          /\ All429(calls[c])
          /\ Len(calls[c].delays) = Len(calls[c].outcomes)
    /\ last.pc = "done" =>
          LET n == Len(last.outcomes)
              final == last.outcomes[n]
          IN  /\ n >= 1
              /\ \A i \in 1..(n - 1) : last.outcomes[i] = Response(429)
              /\ Len(last.delays) = n - 1
              /\ last.ok = IsSuccess(final)
              /\ last.ok => last.data = Payload(KeyOf(last), last.id)
              /\ ~last.ok => last.err = AxiosError(final, AnswerOf(final)[2])
              /\ final = Response(429) => n = DefaultRetries + 1

Wit_C5 ==
    /\ last.pc = "done" /\ last.method \in Mutators
    /\ last.outcomes = <<Response(429), TimedOut>>
    /\ last.err.code = "ECONNABORTED"

\* C6: every get, put, post and delete returns or throws after at most 4 attempts,
\* provided each HTTP attempt ends.
Th_C6 ==
    \A c \in Slots :
        /\ [](Attempts(calls[c]) <= 4)
        /\ (calls[c].pc # "idle") ~> (calls[c].pc = "idle")

Wit_C6 ==
    /\ last.pc = "done" /\ last.method \in Mutators
    /\ Len(last.outcomes) = 4

----------------------------------------------------------------------------
(* Properties of the dispatcher and of the handlers' validation *)

\* C7: toolHandler never throws to its caller: whatever fails inside a handler (a
\* resolver's error, an upstream error, exhausted retries, a timeout, any other
\* exception), it returns the envelope {error: message}; so it does for an unknown mode.
Th_C7 ==
    (run.done /\ req.fn = "tool") =>
        /\ ~run.threw
        /\ run.raised =>
              /\ run.val.error
              /\ run.val.text = "handleApiError"
              /\ run.val.detail = handleApiError(run.err)
        /\ req.mode \notin Modes => run.val.error /\ run.val.text = "Unknown mode"

Wit_C7 ==
    /\ run.done /\ req.fn = "tool" /\ req.mode = "dm"
    /\ run.raised /\ run.err.axios /\ run.err.status = 429
    /\ run.val.detail = RateLimited

\* The parameters a mode and action require: one of every set.
Needs(q) ==
    CASE q.mode = "post" -> {{"text"}, {"thread_id", "channel"}}
      [] q.mode = "threads" -> {{"thread_id", "channel"}}
      [] q.mode = "dm" ->
            IF q.action = "read" THEN {{"chat_id"}}
            ELSE IF q.action = "create_chat" THEN {{"to"}} ELSE {{"to"}, {"text"}}
      [] q.mode = "events" ->
            IF q.action \in {"get", "attendance"} THEN {{"event_id"}}
            ELSE IF q.action = "create"
            THEN {{"event_name"}, {"start_time"}, {"duration"}} ELSE {}
      [] q.mode = "content" ->
            IF q.action \in {"lesson", "update_lesson"} THEN {{"lesson_id"}}
            ELSE IF q.action = "document" THEN {{"document_id"}}
            ELSE IF q.action = "create_lesson" THEN {{"title"}, {"content_text"}} ELSE {}
      [] q.mode = "analytics" -> {{"metric"}}
      [] q.mode = "search" -> {{"query"}}
      [] q.mode = "manage" ->
            {{"action"}} \cup (IF ManageRow(q.action) = 0 THEN {}
                               ELSE ManageRows[ManageRow(q.action)].need)
      [] OTHER -> {}

\* The parameters a request carries, and the requirements it leaves unmet.
Given(q) ==
    q.has \cup (IF q.action # "none" THEN {"action"} ELSE {})
          \cup (IF q.metric # "none" THEN {"metric"} ELSE {})
Missing(q) == {alt \in Needs(q) : alt \cap Given(q) = {}}

\* C8: when a required parameter of the mode and action is missing, the handler returns
\* an error envelope that names a missing parameter (and only required ones), makes no
\* api call at all, and leaves the cache as it was.
Th_C8 ==
    (run.done /\ req.fn = "tool" /\ Missing(req) # {}) =>
        /\ ~run.threw
        /\ run.val.error
        /\ run.val.text = "Required"
        /\ run.val.names \cap UNION Missing(req) # {}
        /\ run.val.names \subseteq UNION Needs(req)
        /\ run.log = <<>>
        /\ run.net = 0
        /\ cache = run.before

Wit_C8 ==
    /\ run.done /\ req.fn = "tool" /\ req.mode = "post"
    /\ req.has = {"channel"}
    /\ DOMAIN run.before # {}
    /\ run.val.names = {"text"}

----------------------------------------------------------------------------
(* Properties of the resolvers *)

HasAt(str) == \E i \in 1..Len(str) : str[i] = "@"

\* C9: on an argument in the identifier format, resolveChannel returns the argument
\* unchanged without any fetch, and resolveUser makes exactly one api.get, of
\* /users/<id>, never of /users or /find/users.
Th_C9 ==
    (run.done /\ req.fn \in {"resolveUser", "resolveChannel"} /\ req.input \in IdInputs) =>
        IF req.fn = "resolveChannel"
        THEN /\ run.log = <<>>
             /\ run.net = 0
             /\ ~run.threw
             /\ run.val = req.input
             /\ cache = run.before
        ELSE /\ run.log = <<ApiCall("GET", <<"/users/", req.input>>, NoParams)>>
             /\ run.net <= 1

Wit_C9 ==
    /\ run.done /\ req.fn = "resolveUser" /\ req.input = Uuid("A")
    /\ Len(run.log) = 1 /\ run.net = 1 /\ run.threw

\* C10: on an argument that is neither an identifier nor contains '@', resolveUser never
\* picks among several candidates: no user whose name contains the argument, ignoring
\* case, is NotFound; exactly one is returned; two or more is an Ambiguous error that
\* lists every candidate as "name (email)" and returns no user.
Th_C10 ==
    (run.done /\ req.fn = "resolveUser" /\ req.input \notin IdInputs /\ ~HasAt(req.input)
        /\ ~run.err.axios) =>
        LET cands == SelectSeq(dir.users,
                         LAMBDA u : includes(toLowerCase(u.name), toLowerCase(req.input)))
        IN  /\ run.log = <<ApiCall("GET", <<"/users">>, NoParams)>>
            /\ Len(cands) = 0 =>
                  run.threw /\ run.err.message.kind = "No user found matching"
            /\ Len(cands) = 1 => ~run.threw /\ run.val = cands[1]
            /\ Len(cands) >= 2 =>
                  /\ run.threw
                  /\ run.err.message.kind = "Multiple users match"
                  /\ run.err.message.list =
                        [i \in 1..Len(cands) |->
                            [name |-> cands[i].name, email |-> cands[i].email]]

Wit_C10 ==
    /\ run.done /\ req.fn = "resolveUser" /\ req.input = <<"A", "L", "E", "X">>
    /\ run.threw /\ ~run.err.axios
    /\ Len(run.err.message.list) = 2

\* C11: on an argument that contains '@' and is no identifier, resolveUser makes one
\* api.get, of /find/users with that email, and none of /users; an empty lookup result
\* is a NotFound error, and otherwise the first element of the result is returned.
Th_C11 ==
    (run.done /\ req.fn = "resolveUser" /\ req.input \notin IdInputs /\ HasAt(req.input)
        /\ ~run.err.axios) =>
        LET found == SelectSeq(dir.users, LAMBDA u : u.email = req.input)
        IN  /\ run.log = <<ApiCall("GET", <<"/find/users">>,
                                   Params(<< <<"email", req.input>> >>))>>
            /\ Len(found) = 0 =>
                  run.threw /\ run.err.message.kind = "No user found with email"
            /\ Len(found) >= 1 => ~run.threw /\ run.val = found[1]

Wit_C11 ==
    /\ run.done /\ req.fn = "resolveUser" /\ req.input = <<"b", "o", "@", "x">>
    /\ ~run.threw /\ run.net = 1
    /\ Len(dir.users) = 2 /\ dir.users[1].email = dir.users[2].email
    /\ run.val = dir.users[1]

\* The channels whose name is the argument, and those whose name contains it,
\* both ignoring case.
ExactChannels ==
    SelectSeq(dir.channels, LAMBDA c : toLowerCase(c.name) = toLowerCase(req.input))
ContainingChannels ==
    SelectSeq(dir.channels,
              LAMBDA c : includes(toLowerCase(c.name), toLowerCase(req.input)))
ChannelLookup ==
    /\ run.done /\ req.fn = "resolveChannel" /\ req.input \notin IdInputs
    /\ ~run.err.axios

\* C12: on an argument that is no identifier, resolveChannel returns the id of a channel
\* whose name equals the argument ignoring case whenever there is one, wherever the
\* channels that only contain the argument stand in the list; an id it returns is
\* never that of a channel that only contains the argument.
Th_C12 ==
    ChannelLookup =>
        /\ Len(ExactChannels) >= 1 => ~run.threw /\ run.val = ExactChannels[1].id
        /\ ~run.threw => \E i \in 1..Len(ExactChannels) : run.val = ExactChannels[i].id

Wit_C12 ==
    /\ ChannelLookup /\ req.input = <<"d", "e", "v">>
    /\ Len(dir.channels) = 2
    /\ dir.channels[1].name = <<"d", "e", "v", "2">>
    /\ ~run.threw /\ run.val = dir.channels[2].id

\* C13: on an argument that is no identifier and is the name of no channel ignoring
\* case, resolveChannel fails with the NotFound error, which lists the names of the
\* channels containing the argument ignoring case, in list order, or the names of all
\* the channels when none contains it.
Th_C13 ==
    (ChannelLookup /\ Len(ExactChannels) = 0) =>
        /\ run.threw
        /\ run.err.message.kind = "No channel named"
        /\ run.err.message.input = req.input
        /\ run.err.message.list =
              IF Len(ContainingChannels) # 0
              THEN [i \in 1..Len(ContainingChannels) |-> ContainingChannels[i].name]
              ELSE [i \in 1..Len(dir.channels) |-> dir.channels[i].name]
        /\ run.err.message.hint =
              IF Len(ContainingChannels) # 0 THEN "Did you mean" ELSE "Available"

Wit_C13 ==
    /\ ChannelLookup /\ req.input = <<"d", "e">>
    /\ Len(dir.channels) = 2 /\ Len(ContainingChannels) = 1
    /\ run.threw /\ Len(run.err.message.list) = 1

----------------------------------------------------------------------------
(* Synthesis modes: what analytics and dashboard compute from what they fetched.
   Instants and durations of this part are in seconds. *)

Day == 24 * 60 * 60
ThirtyDays == 30 * Day
SevenDays == 7 * Day

DefaultLimit == 20        \* params.limit ?? 20
ThreadWeight == 3
LessonWeight == 2
EventWeight == 5
ChannelTop == 5           \* top contributors listed per channel
AttentionNew == 5         \* new members listed in needs_attention
AttentionRisk == 5        \* at-risk members listed in needs_attention
AttentionCap == 15        \* entries of needs_attention
UpcomingCap == 5
RecentCap == 10           \* entries of recent_activity

\* A field the upstream record does not have.
Null == <<>>

\* The elements of a list of lists, in order.
RECURSIVE Concat(_)
Concat(lists) == IF lists = <<>> THEN <<>> ELSE Head(lists) \o Concat(Tail(lists))

\* The number of elements of a list that are in a set.
Count(list, set) == Cardinality({i \in 1..Len(list) : list[i] \in set})

\* Array.prototype.sort((a, b) => key(b) - key(a)), a stable sort: descending keys,
\* equal keys in the order they had.
SortDesc(list, keys) ==
    LET n == Len(list)
        Before(i, j) == keys[i] > keys[j] \/ (keys[i] = keys[j] /\ i < j)
    IN  [p \in 1..n |->
            list[CHOOSE i \in 1..n : Cardinality({j \in 1..n : Before(j, i)}) = p - 1]]

\* A Map of counts filled by map.set(k, (map.get(k) ?? 0) + 1) over a list of keys:
\* its entries, in the order the keys were first set.
Tally(keys) ==
    LET n == Len(keys)
        firsts == {i \in 1..n : \A j \in 1..(i - 1) : keys[j] # keys[i]}
        Nth(p) == CHOOSE i \in firsts : Cardinality({j \in firsts : j < i}) = p - 1
    IN  [p \in 1..Cardinality(firsts) |->
            [key |-> keys[Nth(p)], count |-> Count(keys, {keys[Nth(p)]})]]

\* params.limit ?? 20
LimitOf(q) == IF q.limit = 0 THEN DefaultLimit ELSE q.limit

\* sort by descending key, then slice(0, limit), in the wrong order
Limited_sliceFirst(list, keys, limit) == SortDesc(Take(list, limit), Take(keys, limit))

\* .sort((a, b) => b.key - a.key).slice(0, limit)
Limited(list, keys, limit) == Take(SortDesc(list, keys), limit)

\* The per-channel fetch without its try/catch.
TryThreads_uncaught(ch, down) ==
    IF ch.id \in down THEN [threw |-> TRUE, threads |-> <<>>]
    ELSE [threw |-> FALSE, threads |-> dir.threads[ch.id]]

\* try { threads = await api.get(`/channels/${ch.id}/threads`) } catch { },
\* the fetches of the channels in `down` failing
TryThreads(ch, down) ==
    [threw |-> FALSE, threads |-> IF ch.id \in down THEN <<>> ELSE dir.threads[ch.id]]

\* allThreads.push({ ...t, channelName: ch.name })
Tagged(t, ch) ==
    [id |-> t.id, userID |-> t.userID, createdAt |-> t.createdAt, channelName |-> ch.name]

\* fetchAllThreads(api, cap): the threads of the first `most` channels, pushed as each
\* channel's fetch completes; order[k] is the channel whose fetch completes k-th.
allThreads(most, down, order) ==
    LET capped == Take(dir.channels, most)
        Got(ch) == TryThreads(ch, down)
        Pushed(ch) == Map(Got(ch).threads, LAMBDA t : Tagged(t, ch))
    IN  [threw |-> \E i \in 1..Len(capped) : Got(capped[i]).threw,
         threads |-> Concat([k \in 1..Len(capped) |-> Pushed(capped[order[k]])])]

\* (a.userID ?? a.user_id ?? a.id)
AttendeeOf(a) ==
    IF a.userID # Null THEN a.userID ELSE IF a.user_id # Null THEN a.user_id ELSE a.id

\* The attendance records counted, over the events whose attendance fetch succeeds.
Attended(down) ==
    Concat([i \in 1..Len(dir.events) |->
              IF dir.events[i].id \in down THEN <<>>
              ELSE Filter(Map(dir.attendance[dir.events[i].id], AttendeeOf),
                          LAMBDA uid : uid \notin {Null, <<"">>})])

\* A score that weighs every activity alike.
Score_flat(threadsAuthored, lessonsCompleted, eventsAttended) ==
    threadsAuthored + lessonsCompleted + eventsAttended

Score(threadsAuthored, lessonsCompleted, eventsAttended) ==
    threadsAuthored * ThreadWeight + lessonsCompleted * LessonWeight
        + eventsAttended * EventWeight

Failed == [threw |-> TRUE]

\* metric === "engagement_scores"
engagement_scores(q, down, order) ==
    LET Rank(scored) ==
            Limited(scored, [i \in 1..Len(scored) |-> scored[i].score], LimitOf(q))
        Scored(authors, attendees) ==
            Map(dir.users,
                LAMBDA u :
                    [id |-> u.id, name |-> u.name,
                     threads_authored |-> Count(authors, {u.id}),
                     lessons_completed |-> Len(u.completedLessons),
                     events_attended |-> Count(attendees, {u.id}),
                     score |-> Score(Count(authors, {u.id}), Len(u.completedLessons),
                                     Count(attendees, {u.id}))])
        Report(fan) ==
            IF fan.threw THEN Failed
            ELSE [threw |-> FALSE, total_users |-> Len(dir.users),
                  top |-> Rank(Scored(Map(fan.threads, LAMBDA t : t.userID),
                                      Attended(down)))]
    IN  Report(allThreads(EngagementFanOut, down, order))

\* The authors of threads, and of the threads created in the last 30 days.
Authors(threads) == {threads[i].userID : i \in 1..Len(threads)}
RecentAuthors(threads) ==
    {threads[i].userID : i \in {j \in 1..Len(threads) : threads[j].createdAt > now - ThirtyDays}}

\* A member with no lessons, no groups, but threads of the past is put nowhere.
SegmentOf_noElse(u, hasRecentThreads, hasAnyThreads) ==
    IF Len(u.completedLessons) > 0 \/ hasRecentThreads
    THEN IF Len(u.completedLessons) > 0 /\ ~hasRecentThreads /\ ~hasAnyThreads
         THEN "at_risk" ELSE "active"
    ELSE IF Len(u.completedLessons) = 0 /\ Len(u.groupIDs) > 0 THEN "new_members"
    ELSE IF ~hasAnyThreads THEN "churned"
    ELSE "none"

\* The segment the loop of member_segments pushes a user to.
SegmentOf(u, hasRecentThreads, hasAnyThreads) ==
    IF Len(u.completedLessons) > 0 \/ hasRecentThreads
    THEN IF Len(u.completedLessons) > 0 /\ ~hasRecentThreads /\ ~hasAnyThreads
         THEN "at_risk" ELSE "active"
    ELSE IF Len(u.completedLessons) = 0 /\ Len(u.groupIDs) > 0 THEN "new_members"
    ELSE "churned"

Segments == {"new_members", "active", "at_risk", "churned"}

\* metric === "member_segments"
member_segments(q, down, order) ==
    LET Placed(threads) ==
            [g \in Segments |->
                Map(Filter(dir.users,
                           LAMBDA u : SegmentOf(u, u.id \in RecentAuthors(threads),
                                                u.id \in Authors(threads)) = g),
                    LAMBDA u : [id |-> u.id, name |-> u.name])]
        Report(segments) ==
            [threw |-> FALSE, total |-> Len(dir.users),
             counts |-> [g \in Segments |-> Len(segments[g])],
             placed |-> segments,
             segments |-> [g \in Segments |-> Take(segments[g], LimitOf(q))]]
        Fanned(fan) == IF fan.threw THEN Failed ELSE Report(Placed(fan.threads))
    IN  Fanned(allThreads(SegmentsFanOut, down, order))

\* userMap.get(userID) ?? userID
NameFor(userID) ==
    LET known == Filter(dir.users, LAMBDA u : u.id = userID)
    IN  IF known = <<>> THEN userID ELSE known[Len(known)].name

\* metric === "top_contributors": order[k] is the channel whose fetch completes k-th
top_contributors(q, down, order) ==
    LET Fetched(ch) == IF ch.id \in down THEN <<>> ELSE dir.threads[ch.id]
        Board(entries) ==
            Map(Limited(entries, [i \in 1..Len(entries) |-> entries[i].count], LimitOf(q)),
                LAMBDA e : [user_id |-> e.key, name |-> NameFor(e.key), threads |-> e.count])
    IN  [threw |-> FALSE,
         leaderboard |->
            Board(Tally(Concat([k \in 1..Len(dir.channels) |->
                                  Map(Fetched(dir.channels[order[k]]),
                                      LAMBDA t : t.userID)])))]

\* metric === "channel_activity"
channel_activity(q, down) ==
    LET Contributors(entries) ==
            Map(Limited(entries, [i \in 1..Len(entries) |-> entries[i].count], ChannelTop),
                LAMBDA e : [userID |-> e.key, threads |-> e.count])
        Stat(ch) ==
            IF ch.id \in down
            THEN [channel |-> ch.name, channel_id |-> ch.id, thread_count |-> 0,
                  top_contributors |-> <<>>]
            ELSE [channel |-> ch.name, channel_id |-> ch.id,
                  thread_count |-> Len(dir.threads[ch.id]),
                  top_contributors |->
                      Contributors(Tally(Map(dir.threads[ch.id], LAMBDA t : t.userID)))]
        Sorted(channelStats) ==
            SortDesc(channelStats,
                     [i \in 1..Len(channelStats) |-> channelStats[i].thread_count])
    IN  [threw |-> FALSE, channels |-> Sorted(Map(dir.channels, Stat))]

\* Math.round(num / den) of two naturals, den > 0
MathRound(num, den) == (2 * num + den) \div (2 * den)

Range(list) == {list[i] : i \in 1..Len(list)}

\* Every completion record of the user counted for every course.
Completed_any(u, lessonIDs) == Len(u.completedLessons)

\* (u.completedLessons ?? []).filter((cl) => lessonIDs.includes(cl.lessonID)).length
Completed(u, lessonIDs) == Count(u.completedLessons, Range(lessonIDs))

\* metric === "course_progress"
course_progress(q) ==
    LET Progress(course, totalLessons, enrolledUsers) ==
            [id |-> course.id, total_lessons |-> totalLessons,
             avg_completion_pct |->
                IF Len(enrolledUsers) > 0
                THEN MathRound(100 * SumSeq(Map(enrolledUsers,
                                                LAMBDA u : Completed(u, course.lessons))),
                               totalLessons * Len(enrolledUsers))
                ELSE 0,
             enrolled |-> Len(enrolledUsers),
             stalled_members |->
                Map(Filter(enrolledUsers,
                           LAMBDA u : Completed(u, course.lessons) < totalLessons),
                    LAMBDA u : [id |-> u.id, name |-> u.name,
                                completed |-> Completed(u, course.lessons),
                                remaining |-> totalLessons - Completed(u, course.lessons)])]
        Course(course) ==
            IF Len(course.lessons) = 0
            THEN [id |-> course.id, total_lessons |-> 0, avg_completion_pct |-> 0,
                  enrolled |-> 0, stalled_members |-> <<>>]
            ELSE Progress(course, Len(course.lessons),
                          Filter(dir.users, LAMBDA u : Completed(u, course.lessons) > 0))
    IN  [threw |-> FALSE, courses |-> Map(dir.courses, Course)]

\* needs_attention with the members ahead of the threads.
needsAttention_membersFirst(recent, newMembers, atRiskMembers) ==
    Take(Take(newMembers, AttentionNew) \o Take(atRiskMembers, AttentionRisk) \o recent,
         AttentionCap)

\* The pushes to needsAttention in order, and the slice(0, 15) of the result.
needsAttention(recent, newMembers, atRiskMembers) ==
    Take(recent \o Take(newMembers, AttentionNew) \o Take(atRiskMembers, AttentionRisk),
         AttentionCap)

\* One entry of needs_attention.
Entry(type, channel, name, id) ==
    [type |-> type, channel |-> channel, name |-> name, id |-> id]

\* The events that start later than now, soonest first, cut to the first 5.
upcomingEvents ==
    LET Soonest(future) ==
            Limited(future, [i \in 1..Len(future) |-> 0 - future[i].startTime], UpcomingCap)
    IN  Soonest(Filter(dir.events, LAMBDA e : e.startTime > now))

\* handleDashboard: the summary of members, threads and events, needs_attention,
\* recent_activity and upcoming_events (the courses and notifications it passes on are
\* left out).
dashboard(down) ==
    LET channelThreads ==
            Map(Take(dir.channels, DashboardFanOut),
                LAMBDA ch : [channel |-> ch.name, channelID |-> ch.id,
                             threads |-> IF ch.id \in down THEN <<>>
                                         ELSE dir.threads[ch.id]])
        Flat(Keep(_)) ==
            Concat(Map(channelThreads,
                       LAMBDA ct : Map(Filter(ct.threads, Keep),
                                       LAMBDA t : Tagged(t, [name |-> ct.channel]))))
        Build(every, newMembers, atRiskMembers) ==
            [threw |-> FALSE,
             summary |-> [total_members |-> Len(dir.users),
                          new_members |-> Len(newMembers),
                          at_risk_members |-> Len(atRiskMembers),
                          active_channels |-> Len(dir.channels),
                          upcoming_events |-> Len(upcomingEvents),
                          total_recent_threads |-> Len(Take(every, RecentCap))],
             channelThreads |-> channelThreads,
             needs_attention |->
                needsAttention(
                    Map(Flat(LAMBDA t : t.createdAt > now - SevenDays),
                        LAMBDA t : Entry("recent_thread", t.channelName,
                                         NameFor(t.userID), t.id)),
                    Map(newMembers, LAMBDA u : Entry("new_member", Null, u.name, u.id)),
                    Map(atRiskMembers, LAMBDA u : Entry("at_risk", Null, u.name, u.id))),
             recent_activity |->
                Map(Limited(every, [i \in 1..Len(every) |-> every[i].createdAt], RecentCap),
                    LAMBDA t : [channel |-> t.channelName, author |-> NameFor(t.userID),
                                thread_id |-> t.id]),
             upcoming_events |-> Map(upcomingEvents, LAMBDA e : [id |-> e.id])]
        Members(every) ==
            Build(every,
                  Filter(dir.users, LAMBDA u : Len(u.completedLessons) = 0),
                  Filter(dir.users,
                         LAMBDA u : /\ Len(u.completedLessons) > 0 \/ u.id \in Authors(every)
                                    /\ u.id \notin RecentAuthors(every)))
    IN  Members(Flat(LAMBDA t : TRUE))

----------------------------------------------------------------------------
(* One synthesis call on a community drawn at the start *)

MaxMembers == 2      \* users of a drawn community
MaxChannels == 2     \* channels of a drawn community

SynthNow == 100 * Day
Ago(days) == SynthNow - days * Day

MemberId(i) == <<"u", i>>
Member(i, lessons, groups) ==
    [id |-> MemberId(i), name |-> <<"name", i>>,
     completedLessons |-> lessons, groupIDs |-> groups]
ChannelAt(i) == [id |-> <<"c", i>>, name |-> <<"ch", i>>]
ThreadAt(c, k, userID, createdAt) ==
    [id |-> <<"t", c, k>>, userID |-> userID, createdAt |-> createdAt]
Attendance(form, userID) ==
    CASE form = "userID" -> [userID |-> userID, user_id |-> Null, id |-> <<"a">>]
      [] form = "user_id" -> [userID |-> Null, user_id |-> userID, id |-> <<"a">>]
      [] form = "id" -> [userID |-> Null, user_id |-> Null, id |-> userID]
      [] OTHER -> [userID |-> <<"">>, user_id |-> userID, id |-> userID]

\* The user lists of every length up to n, user i with any of the profiles.
Crowds(n, Lessons, Groups) ==
    UNION {{[i \in 1..k |-> Member(i, f[i][1], f[i][2])] : f \in [1..k -> Lessons \X Groups]}
             : k \in 0..n}

\* The threads of channel c, given the author and the age in days of each.
Shaped(c, shape) ==
    [j \in 1..Len(shape) |-> ThreadAt(c, j, MemberId(shape[j][1]), Ago(shape[j][2]))]

\* Up to n channels, each with the threads of any of the shapes.
Forums(n, Shapes) ==
    UNION {{[channels |-> [i \in 1..k |-> ChannelAt(i)],
             threads |-> [id \in {ChannelAt(i).id : i \in 1..k} |-> Shaped(id[2], f[id[2]])]]
              : f \in [1..k -> Shapes]}
             : k \in 0..n}
NoForum == [channels |-> <<>>, threads |-> <<>>]

EventAt(i) == [id |-> <<"e", i>>]
\* No event, or one event with any of the attendance lists.
Calendars(Records) ==
    {[events |-> <<>>, attendance |-> <<>>]}
    \cup {[events |-> <<EventAt(1)>>, attendance |-> [id \in {EventAt(1).id} |-> l]]
            : l \in Records}
NoCalendar == [events |-> <<>>, attendance |-> <<>>]

Course(i, lessons) == [id |-> <<"course", i>>, lessons |-> lessons]

Community(users, forum, calendar, courses) ==
    [users |-> users, channels |-> forum.channels, threads |-> forum.threads,
     events |-> calendar.events, attendance |-> calendar.attendance, courses |-> courses]

\* More channels than any fan-out takes, one thread each.
Wide ==
    Community(<<Member(1, <<"L1">>, <<>>)>>,
              [channels |-> [i \in 1..(DashboardFanOut + 1) |-> ChannelAt(i)],
               threads |-> [id \in {ChannelAt(i).id : i \in 1..(DashboardFanOut + 1)} |->
                               <<ThreadAt(id[2], 1, MemberId(1), Ago(id[2]))>>]],
              NoCalendar, <<>>)

\* n threads of the last days in each of two channels, and more new and at-risk
\* members than needs_attention lists.
Swamped(n) ==
    Community([i \in 1..(2 * AttentionNew + 2) |->
                  Member(i, IF i <= AttentionNew + 1 THEN <<>> ELSE <<"L1">>, <<>>)],
              [channels |-> [i \in 1..2 |-> ChannelAt(i)],
               threads |-> [id \in {ChannelAt(i).id : i \in 1..2} |->
                               [j \in 1..n |-> ThreadAt(id[2], j, MemberId(0), Ago(1))]]],
              NoCalendar, <<>>)

\* An event that starts `days` days from now.
EventOn(i, days) == [id |-> <<"e", i>>, startTime |-> SynthNow + days * Day]

\* n events to come, the later ones listed first, and one of yesterday; one thread of
\* 40 days ago.
Booked(n) ==
    Community(<<Member(1, <<>>, <<>>)>>,
              [channels |-> <<ChannelAt(1)>>,
               threads |-> [id \in {ChannelAt(1).id} |->
                               <<ThreadAt(1, 1, MemberId(1), Ago(40))>>]],
              [events |-> [i \in 1..(n + 1) |-> EventOn(i, n - i)],
               attendance |-> [id \in {EventOn(i, 0).id : i \in 1..(n + 1)} |-> <<>>]],
              <<>>)

\* 3 threads, 2 completed lessons and 1 event attended for the first user.
Example ==
    Community(<<Member(1, <<"L1", "L2">>, <<>>), Member(2, <<>>, <<>>)>>,
              [channels |-> [i \in 1..2 |-> ChannelAt(i)],
               threads |-> [id \in {ChannelAt(i).id : i \in 1..2} |->
                               [j \in 1..(3 - id[2]) |->
                                   ThreadAt(id[2], j, MemberId(1), Ago(1))]]],
              [events |-> <<EventAt(1)>>,
               attendance |-> [id \in {EventAt(1).id} |->
                                  <<Attendance("userID", MemberId(1))>>]],
              <<>>)

\* More users than the default limit: user i has i % 3 lessons and i % 4 + 1 threads.
Crowd ==
    Community([i \in 1..(DefaultLimit + 2) |->
                  Member(i, SubSeq(<<"L1", "L2">>, 1, i % 3), <<>>)],
              [channels |-> <<ChannelAt(1)>>,
               threads |-> [id \in {ChannelAt(1).id} |->
                               Concat([i \in 1..(DefaultLimit + 2) |->
                                         [j \in 1..((i % 4) + 1) |->
                                             ThreadAt(1, 10 * i + j, MemberId(i), Ago(1))]])]],
              NoCalendar, <<>>)

Profiles == {<<>>, <<"L1">>}
AttendanceLists ==
    {<<>>, <<Attendance("userID", MemberId(1))>>,
     <<Attendance("user_id", MemberId(2)), Attendance("id", MemberId(1))>>,
     <<Attendance("blank", MemberId(1))>>}
CoursePool == {Course(1, <<"L1", "L2">>), Course(2, <<>>), Course(3, <<"L3">>)}
LessonLists ==
    {<<>>, <<"L1">>, <<"L1", "L2">>, <<"L3", "L1">>, <<"L1", "L1">>, <<"L3", "L3">>}

\* Threads by one user, by another, by both, and by an author who is no user.
AuthorShapes ==
    {<<>>, << <<1, 1>> >>, << <<2, 1>> >>, << <<1, 1>>, <<2, 1>> >>,
     << <<0, 1>>, <<2, 1>>, <<2, 1>> >>}

SynthModes ==
    {"dashboard", "engagement_scores", "channel_activity", "course_progress",
     "member_segments", "top_contributors"}

\* The communities a synthesis mode is tried on.
Communities(mode) ==
    CASE mode = "member_segments" ->
            {Community(u, f, NoCalendar, <<>>) :
                u \in Crowds(MaxMembers, Profiles, {<<>>, <<"g">>}),
                f \in Forums(MaxChannels, {<<>>, << <<1, 40>> >>, << <<1, 1>> >>,
                                           << <<2, 1>>, <<1, 40>> >>})}
            \cup {Wide}
      [] mode = "engagement_scores" ->
            {Community(u, f, c, <<>>) :
                u \in Crowds(MaxMembers, {<<>>, <<"L1", "L2">>}, {<<>>}),
                f \in Forums(MaxChannels, {<<>>, << <<1, 1>> >>, << <<2, 1>>, <<1, 1>> >>}),
                c \in Calendars(AttendanceLists)}
            \cup {Wide, Example, Crowd}
      [] mode = "top_contributors" ->
            {Community(u, f, NoCalendar, <<>>) :
                u \in Crowds(MaxMembers, {<<>>}, {<<>>}),
                f \in Forums(MaxChannels, AuthorShapes)}
            \cup {Crowd, Wide}
      [] mode = "channel_activity" ->
            {Community(<<>>, f, NoCalendar, <<>>) :
                f \in Forums(MaxChannels, AuthorShapes)}
            \cup {Wide}
      [] mode = "course_progress" ->
            {Community(u, NoForum, NoCalendar, c) :
                u \in Crowds(MaxMembers, LessonLists, {<<>>}),
                c \in Lists(CoursePool, 2)}
      [] mode = "dashboard" ->
            {Community(u, f, NoCalendar, <<>>) :
                u \in Crowds(MaxMembers, Profiles, {<<>>}),
                f \in Forums(MaxChannels, {<<>>, << <<1, 1>> >>, << <<1, 7>> >>,
                                           << <<1, 10>>, <<1, 1>> >>, << <<1, 40>> >>})}
            \cup {Wide, Swamped(3), Swamped(6), Swamped(8), Booked(2), Booked(UpcomingCap + 1)}

SynthReqs ==
    {[fn |-> "synth", mode |-> m, limit |-> l] :
        m \in {"engagement_scores", "top_contributors"}, l \in {0, 1}}
    \cup {[fn |-> "synth", mode |-> m, limit |-> 0] : m \in SynthModes}

InitSynth ==
    /\ now = SynthNow
    /\ req \in SynthReqs
    /\ dir \in Communities(req.mode)
    /\ cache = EmptyCache
    /\ run = NoRun
    /\ calls = [c \in Slots |-> IdleCall]
    /\ last = IdleCall
    /\ served = NotServed
    /\ fills = [k \in Keys |-> NoFill]
    /\ epoch = 0
    /\ nextId = 0
    /\ prior = [k \in Keys |-> 0]
    /\ hist = [i \in Ids |-> NoHist]
    /\ mutPending = FALSE
    /\ width = 1
    /\ cap = 0
    /\ quota = 0

\* The sub-fetches that fail: none, any one of them, or all of them.
Downs ==
    LET ids == {dir.channels[i].id : i \in 1..Len(dir.channels)}
               \cup {dir.events[i].id : i \in 1..Len(dir.events)}
    IN  {{}, ids} \cup {{id} : id \in ids}

\* The orders in which the per-channel fetches of a fan-out of n complete: the order
\* they were issued in, its rotations, and its reverse.
Orders(n) ==
    {[k \in 1..n |-> ((k + r - 1) % n) + 1] : r \in 0..(n - 1)}
    \cup {[k \in 1..n |-> n + 1 - k]}

\* The channels whose threads the mode fetches.
FanOut(q) ==
    CASE q.mode = "engagement_scores" -> Len(Take(dir.channels, EngagementFanOut))
      [] q.mode = "member_segments" -> Len(Take(dir.channels, SegmentsFanOut))
      [] q.mode = "dashboard" -> Len(Take(dir.channels, DashboardFanOut))
      [] q.mode = "course_progress" -> 0
      [] OTHER -> Len(dir.channels)

\* The answer of the mode, the sub-fetches of `down` failing and completing in `order`.
Synthesis(q, down, order) ==
    CASE q.mode = "dashboard" -> dashboard(down)
      [] q.mode = "engagement_scores" -> engagement_scores(q, down, order)
      [] q.mode = "channel_activity" -> channel_activity(q, down)
      [] q.mode = "course_progress" -> course_progress(q)
      [] q.mode = "member_segments" -> member_segments(q, down, order)
      [] q.mode = "top_contributors" -> top_contributors(q, down, order)

Synth(down, order) ==
    /\ req.fn = "synth"
    /\ ~run.done
    /\ run' = [done |-> TRUE, down |-> down, order |-> order,
               val |-> Synthesis(req, down, order)]
    /\ UNCHANGED <<now, cache, calls, last, served, fills, epoch, nextId, prior, hist,
                   mutPending, width, cap, quota, dir, req>>

SynthNext == \E down \in Downs, order \in Orders(FanOut(req)) : Synth(down, order)

SynthSpec == InitSynth /\ [][SynthNext]_vars

----------------------------------------------------------------------------
(* Properties of the synthesis modes *)

Synthesized(mode) == req.fn = "synth" /\ req.mode = mode /\ run.done

Min(a, b) == IF a < b THEN a ELSE b

\* The channels among the first `most` whose thread fetch succeeded in this run, and
\* the threads <<channel, position>> they hold.
Reached(most) ==
    {i \in 1..Min(most, Len(dir.channels)) : dir.channels[i].id \notin run.down}
ThreadsReached(most) ==
    UNION {{<<i, j>> : j \in 1..Len(dir.threads[dir.channels[i].id])} : i \in Reached(most)}
ThreadAtPlace(place) == dir.threads[dir.channels[place[1]].id][place[2]]
AuthoredBy(id, most) ==
    Cardinality({place \in ThreadsReached(most) : ThreadAtPlace(place).userID = id})

\* The attendance record names the user: by its first field present among
\* userID, user_id, id.
Names(a, id) ==
    \/ a.userID = id
    \/ a.userID = Null /\ a.user_id = id
    \/ a.userID = Null /\ a.user_id = Null /\ a.id = id
AttendedBy(id) ==
    Cardinality({i \in 1..Len(dir.events) :
                    /\ dir.events[i].id \notin run.down
                    /\ \E k \in 1..Len(dir.attendance[dir.events[i].id]) :
                          Names(dir.attendance[dir.events[i].id][k], id)})
UserOf(id) == CHOOSE i \in 1..Len(dir.users) : dir.users[i].id = id
ScoreOf(id) ==
    3 * AuthoredBy(id, EngagementFanOut) + 2 * Len(dir.users[UserOf(id)].completedLessons)
        + 5 * AttendedBy(id)

\* C14: whatever users and threads member_segments is given, every user is placed in
\* exactly one of new_members, active, at_risk and churned, and the four counts
\* reported add up to the total reported, the number of users.
Th_C14 ==
    Synthesized("member_segments") =>
        /\ \A i \in 1..Len(dir.users) :
              Cardinality({<<g, k>> \in Segments \X (1..Len(dir.users)) :
                              /\ k <= Len(run.val.placed[g])
                              /\ run.val.placed[g][k].id = dir.users[i].id}) = 1
        /\ \A g \in Segments : run.val.counts[g] = Len(run.val.placed[g])
        /\ run.val.total = Len(dir.users)
        /\ run.val.counts["new_members"] + run.val.counts["active"]
              + run.val.counts["at_risk"] + run.val.counts["churned"] = run.val.total

Wit_C14 ==
    /\ Synthesized("member_segments")
    /\ run.val.total = 2
    /\ run.val.counts["at_risk"] = 1 /\ run.val.counts["churned"] = 1
    /\ run.down = {} /\ Len(dir.channels) = 2

AuthorsReached ==
    {ThreadAtPlace(place).userID : place \in ThreadsReached(Len(dir.channels))}

\* C16: the `top` of engagement_scores and the leaderboard of top_contributors are cut
\* to the limit (20 when none is given) after sorting: they have min(limit, total)
\* entries, in descending order, and no user left out has a strictly higher score,
\* or thread count, than a user reported.
Th_C16 ==
    /\ Synthesized("engagement_scores") =>
          LET top == run.val.top
              kept == {top[k].id : k \in 1..Len(top)}
          IN  /\ Len(top) = Min(LimitOf(req), Len(dir.users))
              /\ \A k \in 1..(Len(top) - 1) : top[k].score >= top[k + 1].score
              /\ \A i \in 1..Len(dir.users) :
                    dir.users[i].id \notin kept =>
                        \A k \in 1..Len(top) : ScoreOf(dir.users[i].id) <= top[k].score
    /\ Synthesized("top_contributors") =>
          LET board == run.val.leaderboard
              kept == {board[k].user_id : k \in 1..Len(board)}
          IN  /\ Len(board) = Min(LimitOf(req), Cardinality(AuthorsReached))
              /\ \A k \in 1..(Len(board) - 1) : board[k].threads >= board[k + 1].threads
              /\ \A k \in 1..Len(board) :
                    board[k].threads = AuthoredBy(board[k].user_id, Len(dir.channels))
              /\ \A id \in AuthorsReached \ kept :
                    \A k \in 1..Len(board) :
                        AuthoredBy(id, Len(dir.channels)) <= board[k].threads

Wit_C16 ==
    /\ Synthesized("top_contributors")
    /\ req.limit = 1 /\ run.down = {}
    /\ Cardinality(AuthorsReached) = 2
    /\ Len(run.val.leaderboard) = 1
    /\ run.val.leaderboard[1].threads = 2
    /\ dir.threads[dir.channels[1].id][1].userID # run.val.leaderboard[1].user_id

\* C17: a thread fetch that fails for a channel leaves that channel without threads and
\* aborts nothing: fetchAllThreads and the dashboard's fan-out end without an error,
\* holding exactly the threads of the channels whose fetch succeeded, each with the
\* name of its channel, and the dashboard returns its payload.
Th_C17 ==
    /\ (Synthesized("engagement_scores") \/ Synthesized("member_segments")) =>
          LET most == IF req.mode = "engagement_scores" THEN EngagementFanOut
                      ELSE SegmentsFanOut
              fan == allThreads(most, run.down, run.order)
          IN  /\ ~fan.threw
              /\ ~run.val.threw
              /\ Len(fan.threads) = Cardinality(ThreadsReached(most))
              /\ \A place \in ThreadsReached(most) :
                    \E k \in 1..Len(fan.threads) :
                        fan.threads[k] = Tagged(ThreadAtPlace(place), dir.channels[place[1]])
    /\ Synthesized("dashboard") =>
          /\ ~run.val.threw
          /\ run.val.summary.total_members = Len(dir.users)
          /\ Len(run.val.channelThreads) = Min(DashboardFanOut, Len(dir.channels))
          /\ \A i \in 1..Len(run.val.channelThreads) :
                /\ run.val.channelThreads[i].channel = dir.channels[i].name
                /\ run.val.channelThreads[i].threads =
                      IF i \in Reached(DashboardFanOut)
                      THEN dir.threads[dir.channels[i].id] ELSE <<>>
          /\ \A k \in 1..Len(run.val.recent_activity) :
                \E place \in ThreadsReached(DashboardFanOut) :
                    /\ run.val.recent_activity[k].thread_id = ThreadAtPlace(place).id
                    /\ run.val.recent_activity[k].channel = dir.channels[place[1]].name

Wit_C17 ==
    /\ Synthesized("engagement_scores")
    /\ Len(dir.channels) = 2 /\ run.down = {dir.channels[1].id}
    /\ Len(dir.threads[dir.channels[1].id]) = 1 /\ Len(dir.threads[dir.channels[2].id]) = 2
    /\ Len(allThreads(EngagementFanOut, run.down, run.order).threads) = 2
    /\ ~run.val.threw

\* The order in which a fan-out's fetches are issued.
Issued(n) == [k \in 1..n |-> k]

\* C18: for fixed upstream responses a synthesis mode gives one and the same answer,
\* order of entries and entries kept by the limit included, in whatever order its
\* per-channel fetches complete.
CE_C18 ==
    (req.fn = "synth" /\ run.done) =>
        run.val = Synthesis(req, run.down, Issued(Len(run.order)))

\* The same for every synthesis mode but top_contributors.
OrderFree ==
    (req.fn = "synth" /\ run.done /\ req.mode # "top_contributors") =>
        run.val = Synthesis(req, run.down, Issued(Len(run.order)))

\* The entries of needs_attention of one type, in order.
OfType(type) == SelectSeq(run.val.needs_attention, LAMBDA e : e.type = type)

\* The threads of the last 7 days the dashboard reached, the users without a completed
\* lesson, and the users with lessons or threads but no thread of the last 30 days.
RecentPlaces ==
    {place \in ThreadsReached(DashboardFanOut) :
        ThreadAtPlace(place).createdAt > now - SevenDays}
FreshUsers == {i \in 1..Len(dir.users) : Len(dir.users[i].completedLessons) = 0}
RiskUsers ==
    {i \in 1..Len(dir.users) :
        /\ \/ Len(dir.users[i].completedLessons) > 0
           \/ \E place \in ThreadsReached(DashboardFanOut) :
                 ThreadAtPlace(place).userID = dir.users[i].id
        /\ ~\E place \in ThreadsReached(DashboardFanOut) :
                 /\ ThreadAtPlace(place).userID = dir.users[i].id
                 /\ ThreadAtPlace(place).createdAt > now - ThirtyDays}

\* The first n members of a set of places, or of indices, in list order.
FirstPlaces(set, n) ==
    {x \in set : Cardinality({y \in set : y[1] < x[1] \/ (y[1] = x[1] /\ y[2] < x[2])}) < n}
FirstIndices(set, n) == {x \in set : Cardinality({y \in set : y < x}) < n}

\* C19: needs_attention is the threads of the last 7 days, then at most 5 new members,
\* then at most 5 at-risk members, in that order and each part in list order, cut to
\* its first 15 entries.
Th_C19 ==
    Synthesized("dashboard") =>
        LET list == run.val.needs_attention
            r == Min(Cardinality(RecentPlaces), 15)
            n == Min(Min(Cardinality(FreshUsers), 5), 15 - r)
            k == Min(Min(Cardinality(RiskUsers), 5), 15 - r - n)
        IN  /\ Len(list) = r + n + k
            /\ Len(list) <= 15
            /\ \A i \in 1..Len(list) :
                  list[i].type = IF i <= r THEN "recent_thread"
                                 ELSE IF i <= r + n THEN "new_member" ELSE "at_risk"
            /\ {list[i].id : i \in 1..r}
                  = {ThreadAtPlace(place).id : place \in FirstPlaces(RecentPlaces, r)}
            /\ \A i \in 1..r : list[i].channel \in
                  {dir.channels[place[1]].name :
                      place \in {x \in RecentPlaces : ThreadAtPlace(x).id = list[i].id}}
            /\ [i \in 1..n |-> list[r + i].id]
                  = [i \in 1..n |->
                        dir.users[CHOOSE x \in FreshUsers :
                                     Cardinality({y \in FreshUsers : y < x}) = i - 1].id]
            /\ {list[r + n + i].id : i \in 1..k}
                  = {dir.users[x].id : x \in FirstIndices(RiskUsers, k)}

Wit_C19 ==
    /\ Synthesized("dashboard")
    /\ dir = Swamped(3) /\ run.down = {}
    /\ Len(run.val.needs_attention) = 15
    /\ Len(OfType("recent_thread")) = 6
    /\ Len(OfType("new_member")) = 5
    /\ Len(OfType("at_risk")) = 4

\* The completion records of user i whose lesson belongs to course c.
DoneIn(i, c) ==
    Cardinality({k \in 1..Len(dir.users[i].completedLessons) :
                    \E l \in 1..Len(dir.courses[c].lessons) :
                        dir.courses[c].lessons[l] = dir.users[i].completedLessons[k]})
EnrolledIn(c) == {i \in 1..Len(dir.users) : DoneIn(i, c) >= 1}
RECURSIVE SumOver(_, _)
SumOver(set, c) ==
    IF set = {} THEN 0
    ELSE LET i == CHOOSE x \in set : TRUE IN DoneIn(i, c) + SumOver(set \ {i}, c)

\* C20: for every course with lessons, course_progress counts as completed a user's
\* completion records of lessons of the course; enrolled is the number of users with at
\* least one; avg_completion_pct is the mean over them of completed / total x 100,
\* rounded to the nearest integer; stalled_members are the enrolled users with
\* completed < total, each with remaining = total - completed.
Th_C20 ==
    Synthesized("course_progress") =>
        \A c \in 1..Len(dir.courses) :
            LET out == run.val.courses[c]
                total == Len(dir.courses[c].lessons)
                stalled == {i \in EnrolledIn(c) : DoneIn(i, c) < total}
            IN  total > 0 =>
                  /\ out.total_lessons = total
                  /\ out.enrolled = Cardinality(EnrolledIn(c))
                  /\ out.enrolled = 0 => out.avg_completion_pct = 0
                  /\ out.enrolled > 0 =>
                        /\ (2 * out.avg_completion_pct - 1) * total * out.enrolled
                              <= 200 * SumOver(EnrolledIn(c), c)
                        /\ 200 * SumOver(EnrolledIn(c), c)
                              < (2 * out.avg_completion_pct + 1) * total * out.enrolled
                  /\ Len(out.stalled_members) = Cardinality(stalled)
                  /\ \A i \in stalled :
                        \E k \in 1..Len(out.stalled_members) :
                            /\ out.stalled_members[k].id = dir.users[i].id
                            /\ out.stalled_members[k].completed = DoneIn(i, c)
                            /\ out.stalled_members[k].remaining = total - DoneIn(i, c)
                  /\ (total = 2 /\ Len(dir.users) = 1 /\ DoneIn(1, c) = 1) =>
                        /\ out.enrolled = 1
                        /\ out.avg_completion_pct = 50
                        /\ Len(out.stalled_members) = 1
                        /\ out.stalled_members[1].completed = 1
                        /\ out.stalled_members[1].remaining = 1

Wit_C20 ==
    /\ Synthesized("course_progress")
    /\ Len(dir.courses) >= 1 /\ Len(dir.courses[1].lessons) = 2
    /\ Len(dir.users) = 1 /\ dir.users[1].completedLessons = <<"L3", "L1">>
    /\ run.val.courses[1].enrolled = 1
    /\ run.val.courses[1].avg_completion_pct = 50
    /\ run.val.courses[1].stalled_members[1].remaining = 1

----------------------------------------------------------------------------
(* Members mode, and a caller that walks its pages *)

MaxRoster == 2       \* users of a drawn collection

\* Array.prototype.slice(from, to), 0 <= from <= to
Slice(list, from, to) ==
    IF from >= Len(list) THEN <<>> ELSE SubSeq(list, from + 1, Min(to, Len(list)))

\* params.offset ?? 0
OffsetOf(q) == q.offset

\* The users left by the search, group and role filters; an absent or empty parameter
\* filters nothing.
filtered(q) ==
    LET BySearch(list) ==
            IF q.search = <<>> THEN list
            ELSE Filter(list,
                        LAMBDA u : \/ includes(toLowerCase(u.name), toLowerCase(q.search))
                                   \/ includes(toLowerCase(u.email), toLowerCase(q.search)))
        ByGroup(list) ==
            IF q.group = "" THEN list
            ELSE Filter(list, LAMBDA u : \E i \in 1..Len(u.groupIDs) : u.groupIDs[i] = q.group)
        ByRole(list) ==
            IF q.role = "" THEN list ELSE Filter(list, LAMBDA u : u.roleID = q.role)
    IN  ByRole(ByGroup(BySearch(dir.users)))

\* More pages are announced also when the page ends the collection.
HasMore_inclusive(total, offset, count) == total >= offset + count

\* total > offset + page.length
HasMore(total, offset, count) == total > offset + count

\* The next page starts one user too far.
NextOffset_skip(offset, count) == offset + count + 1

\* offset + page.length
NextOffset(offset, count) == offset + count

\* handleMembers, called with the offset `offset`
members(q, offset) ==
    LET Result(total, page) ==
            [total |-> total, count |-> Len(page), offset |-> offset,
             has_more |-> HasMore(total, offset, Len(page)),
             next_offset |-> IF HasMore(total, offset, Len(page))
                             THEN <<NextOffset(offset, Len(page))>> ELSE Null,
             members |-> Map(page, LAMBDA u : u.id)]
        Paged(list) == Result(Len(list), Slice(list, offset, offset + LimitOf(q)))
    IN  Paged(filtered(q))

Person(i, name, email, groups, role) ==
    [id |-> MemberId(i), name |-> name, email |-> email, groupIDs |-> groups, roleID |-> role]
PersonPool ==
    {Person(1, <<"A", "l">>, <<"a", "@", "x">>, <<"g">>, "admin"),
     Person(2, <<"a", "l", "i">>, <<"i", "@", "x">>, <<>>, "user"),
     Person(3, <<"B", "o">>, <<"a", "l", "@", "y">>, <<"g", "h">>, "user"),
     Person(4, <<"C", "y">>, <<"c", "@", "x">>, <<"h">>, "admin")}

\* A collection of n users, every third of them in group g.
Roster(n) ==
    [i \in 1..n |->
        Person(i, <<"A", "l">>, <<"a", "@", "x">>, IF i % 3 = 0 THEN <<"g">> ELSE <<>>, "user")]
RosterSize == 23

MembersReqs ==
    {[fn |-> "members", search |-> s, group |-> g, role |-> r, limit |-> l, offset |-> o] :
        s \in {<<>>, <<"A", "L">>, <<"@", "x">>}, g \in {"", "g"}, r \in {"", "admin"},
        l \in {0, 1, 2, 5}, o \in {0, 1, 2, 10, 20, 30}}

\* The caller's loop: the offset it asks next, the members received so far, the calls
\* made, and the answer to the latest call.
StartWalk(q) ==
    [done |-> FALSE, offset |-> OffsetOf(q), got |-> <<>>, calls |-> 0,
     val |-> [total |-> 0, count |-> 0, offset |-> 0, has_more |-> FALSE,
              next_offset |-> Null, members |-> <<>>]]

InitMembers ==
    /\ now = 0
    /\ req \in MembersReqs
    /\ dir \in {[NoDir EXCEPT !.users = u] : u \in Lists(PersonPool, MaxRoster) \cup {Roster(RosterSize)}}
    /\ cache = EmptyCache
    /\ run = StartWalk(req)
    /\ calls = [c \in Slots |-> IdleCall]
    /\ last = IdleCall
    /\ served = NotServed
    /\ fills = [k \in Keys |-> NoFill]
    /\ epoch = 0
    /\ nextId = 0
    /\ prior = [k \in Keys |-> 0]
    /\ hist = [i \in Ids |-> NoHist]
    /\ mutPending = FALSE
    /\ width = 1
    /\ cap = 0
    /\ quota = 0

\* One call of members mode; the caller goes on from next_offset while has_more.
Page ==
    LET Turn(out) ==
            run' = [done |-> ~out.has_more,
                    offset |-> IF out.has_more THEN out.next_offset[1] ELSE run.offset,
                    got |-> run.got \o out.members,
                    calls |-> run.calls + 1,
                    val |-> out]
    IN  /\ req.fn = "members"
        /\ ~run.done
        /\ Turn(members(req, run.offset))
        /\ UNCHANGED <<now, cache, calls, last, served, fills, epoch, nextId, prior, hist,
                       mutPending, width, cap, quota, dir, req>>

MembersNext == Page

MembersSpec == InitMembers /\ [][MembersNext]_vars

\* The caller that starts at offset 0 and makes every call its loop asks for.
InitWalk == InitMembers /\ req.offset = 0
WalkSpec == InitWalk /\ [][MembersNext]_vars /\ WF_vars(Page)

\* C21: a call of members mode on T filtered users with offset o and limit l returns
\* count = min(l, max(T - o, 0)) members, has_more exactly when o + count < T, and
\* next_offset = o + count when has_more and no next_offset otherwise.
Th_C21 ==
    (req.fn = "members" /\ run.calls > 0) =>
        LET out == run.val
            T == Len(filtered(req))
            o == out.offset
            l == IF req.limit = 0 THEN 20 ELSE req.limit
            most == IF T - o > 0 THEN T - o ELSE 0
        IN  /\ out.total = T
            /\ out.count = Min(l, most)
            /\ Len(out.members) = out.count
            /\ out.has_more <=> o + out.count < T
            /\ out.has_more => out.next_offset = <<o + out.count>>
            /\ ~out.has_more => out.next_offset = Null
            /\ (T = 23 /\ l = 5 /\ o = 10) =>
                  out.count = 5 /\ out.has_more /\ out.next_offset = <<15>>
            /\ (T = 23 /\ l = 5 /\ o = 20) =>
                  out.count = 3 /\ ~out.has_more /\ out.next_offset = Null

Wit_C21 ==
    /\ req.fn = "members" /\ run.calls > 0
    /\ run.val.total = 23 /\ req.limit = 5 /\ run.val.offset = 20
    /\ run.val.count = 3 /\ ~run.val.has_more /\ run.done

\* C29: a caller that starts at offset 0 and follows next_offset while has_more, with
\* the same filters and limit on an unchanged collection, comes to an end, and has then
\* received every filtered user exactly once, in the order of the collection.
Th_C29 ==
    (req.fn = "members" /\ req.offset = 0) ~>
        (run.done /\ run.got = [i \in 1..Len(filtered(req)) |-> filtered(req)[i].id])

Wit_C29 ==
    /\ req.fn = "members" /\ req.offset = 0 /\ req.limit = 5 /\ req.group = "g"
    /\ Len(dir.users) = 23
    /\ run.done /\ run.calls = 2 /\ Len(run.got) = 7

----------------------------------------------------------------------------
(* handleApiError applied to an error drawn at the start *)

\* Statuses axios rejects with: validateStatus accepts 200..299 only.
ErrorStatuses == {304} \cup (400..431) \cup (500..511)

\* What a catch of toolHandler may hold: a rejection of client.request with a response,
\* a timeout or another transport failure, and errors thrown by the program or the
\* runtime.
ThrownErrors ==
    {AxiosError(Response(st), b) : st \in ErrorStatuses, b \in Bodies}
    \cup {AxiosError(TimedOut, "none"), AxiosError(NetworkError, "none")}
    \cup {PlainError(m) : m \in {"No user found matching", "TypeError", "ECONNABORTED", ""}}

InitError ==
    /\ now = 0
    /\ req \in {[fn |-> "handleApiError", error |-> e] : e \in ThrownErrors}
    /\ dir = NoDir
    /\ cache = EmptyCache
    /\ run = NoRun
    /\ calls = [c \in Slots |-> IdleCall]
    /\ last = IdleCall
    /\ served = NotServed
    /\ fills = [k \in Keys |-> NoFill]
    /\ epoch = 0
    /\ nextId = 0
    /\ prior = [k \in Keys |-> 0]
    /\ hist = [i \in Ids |-> NoHist]
    /\ mutPending = FALSE
    /\ width = 1
    /\ cap = 0
    /\ quota = 0

Classify ==
    /\ req.fn = "handleApiError"
    /\ ~run.done
    /\ run' = [done |-> TRUE, val |-> handleApiError(req.error)]
    /\ UNCHANGED <<now, cache, calls, last, served, fills, epoch, nextId, prior, hist,
                   mutPending, width, cap, quota, dir, req>>

ErrorNext == Classify

ErrorSpec == InitError /\ [][ErrorNext]_vars

\* The kinds of the taxonomy a message belongs to.
KindsOf(msg) ==
    {k \in {"RateLimited", "Unauthorized", "Upstream", "Timeout", "Unexpected"} :
        \/ k = "RateLimited"
              /\ msg.text = "Rate limit exceeded after retries. Wait and try again."
        \/ k = "Unauthorized"
              /\ msg.text = "API key invalid or expired. Check HEARTBEAT_API_KEY."
        \/ k = "Upstream"
              /\ msg.text \in {"Validation error: ", "Not found: ", "API error "}
        \/ k = "Timeout" /\ msg.text = "Request timed out. Try again."
        \/ k = "Unexpected" /\ msg.text = "Unexpected error: "}

\* C22: handleApiError puts every failure in exactly one kind: a 429 response is
\* RateLimited, a 401 response Unauthorized, any other response an upstream error whose
\* message carries the detail of the body (and the status, unless the text stands for
\* it), a timeout is Timeout, and anything else UnexpectedError with the error's message.
Th_C22 ==
    (req.fn = "handleApiError" /\ run.done) =>
        LET e == req.error
            msg == run.val
        IN  /\ Cardinality(KindsOf(msg)) = 1
            /\ (e.axios /\ e.response /\ e.status = 429) => KindsOf(msg) = {"RateLimited"}
            /\ (e.axios /\ e.response /\ e.status = 401) => KindsOf(msg) = {"Unauthorized"}
            /\ (e.axios /\ e.response /\ e.status \notin {401, 429}) =>
                  /\ KindsOf(msg) = {"Upstream"}
                  /\ msg.detail = (CASE e.body = "obj_message" -> "body.message"
                                     [] e.body = "obj_other" -> "{\"code\":1}"
                                     [] OTHER -> "\"text\"")
                  /\ msg.text = "Validation error: " <=> e.status = 400
                  /\ msg.text = "Not found: " <=> e.status = 404
                  /\ msg.text = "API error " => msg.status = e.status
            /\ (e.axios /\ ~e.response /\ e.code = "ECONNABORTED") =>
                  KindsOf(msg) = {"Timeout"}
            /\ (~e.axios \/ (~e.response /\ e.code # "ECONNABORTED")) =>
                  KindsOf(msg) = {"Unexpected"} /\ msg.detail = e.message

Wit_C22 ==
    /\ req.fn = "handleApiError" /\ run.done
    /\ req.error.axios /\ req.error.response /\ req.error.status = 401
    /\ KindsOf(run.val) = {"Unauthorized"}

----------------------------------------------------------------------------
(* The buckets of member_segments *)

\* The users of the directory that member_segments placed in bucket g.
PlacedIn(g) ==
    {i \in 1..Len(dir.users) :
        \E k \in 1..Len(run.val.placed[g]) : run.val.placed[g][k].id = dir.users[i].id}

\* User i authored one of the threads member_segments aggregated; one of the last 30 days.
EverAuthored(i) == AuthoredBy(dir.users[i].id, SegmentsFanOut) > 0
LatelyAuthored(i) ==
    \E place \in ThreadsReached(SegmentsFanOut) :
        /\ ThreadAtPlace(place).userID = dir.users[i].id
        /\ ThreadAtPlace(place).createdAt > now - ThirtyDays

\* C23: in member_segments every user in churned has no completed lessons, no groups
\* and authored no thread at all; every user in new has no lessons and at least one
\* group; every user in at_risk has a completed lesson and no thread ever; every user
\* in active has completed lessons or a thread of the last 30 days and is not in the
\* at-risk case.
CE_C23 ==
    Synthesized("member_segments") =>
        /\ \A i \in PlacedIn("churned") :
              /\ Len(dir.users[i].completedLessons) = 0
              /\ Len(dir.users[i].groupIDs) = 0
              /\ ~EverAuthored(i)
        /\ \A i \in PlacedIn("new_members") :
              Len(dir.users[i].completedLessons) = 0 /\ Len(dir.users[i].groupIDs) > 0
        /\ \A i \in PlacedIn("at_risk") :
              Len(dir.users[i].completedLessons) > 0 /\ ~EverAuthored(i)
        /\ \A i \in PlacedIn("active") :
              /\ Len(dir.users[i].completedLessons) > 0 \/ LatelyAuthored(i)
              /\ ~(Len(dir.users[i].completedLessons) > 0 /\ ~EverAuthored(i))

\* The same, a churned user being one with no lessons, no groups and no thread of the
\* last 30 days.
BucketsAsCoded ==
    Synthesized("member_segments") =>
        /\ \A i \in PlacedIn("churned") :
              /\ Len(dir.users[i].completedLessons) = 0
              /\ Len(dir.users[i].groupIDs) = 0
              /\ ~LatelyAuthored(i)
        /\ \A i \in PlacedIn("new_members") :
              Len(dir.users[i].completedLessons) = 0 /\ Len(dir.users[i].groupIDs) > 0
        /\ \A i \in PlacedIn("at_risk") :
              Len(dir.users[i].completedLessons) > 0 /\ ~EverAuthored(i)
        /\ \A i \in PlacedIn("active") :
              /\ Len(dir.users[i].completedLessons) > 0 \/ LatelyAuthored(i)
              /\ ~(Len(dir.users[i].completedLessons) > 0 /\ ~EverAuthored(i))

----------------------------------------------------------------------------
(* The counters of the dashboard summary *)

FutureEvents == {i \in 1..Len(dir.events) : dir.events[i].startTime > now}

\* C24: the counters of the dashboard summary count the full derived sets:
\* total_recent_threads is the number of aggregated threads created within the last 7
\* days, upcoming_events the number of events that start in the future, new_members and
\* at_risk_members the number of users meeting each definition.
CE_C24 ==
    Synthesized("dashboard") =>
        /\ run.val.summary.total_recent_threads = Cardinality(RecentPlaces)
        /\ run.val.summary.upcoming_events = Cardinality(FutureEvents)
        /\ run.val.summary.new_members = Cardinality(FreshUsers)
        /\ run.val.summary.at_risk_members = Cardinality(RiskUsers)

\* The two member counters count the full sets; total_recent_threads is the length of
\* recent_activity, the aggregated threads of any age cut to 10, and upcoming_events
\* the length of the list of events to come cut to 5.
CountersAsCoded ==
    Synthesized("dashboard") =>
        /\ run.val.summary.total_recent_threads =
              Min(Cardinality(ThreadsReached(DashboardFanOut)), RecentCap)
        /\ run.val.summary.total_recent_threads = Len(run.val.recent_activity)
        /\ run.val.summary.upcoming_events = Min(Cardinality(FutureEvents), UpcomingCap)
        /\ run.val.summary.new_members = Cardinality(FreshUsers)
        /\ run.val.summary.at_risk_members = Cardinality(RiskUsers)

----------------------------------------------------------------------------
(* The fan-out over channels *)

FannedModes ==
    {"dashboard", "engagement_scores", "member_segments", "channel_activity",
     "top_contributors"}

\* C25: no synthesis mode fetches the threads of more than the first 10 channels of
\* the channel list in one call, however many channels there are, and it issues
\* exactly one fetch per channel it selected.
CE_C25 ==
    (req.fn = "synth" /\ run.done /\ req.mode \in FannedModes) =>
        /\ Len(run.order) <= DashboardFanOut
        /\ Len(run.order) <= Len(dir.channels)
        /\ \A i \in 1..Len(run.order) :
              Cardinality({k \in 1..Len(run.order) : run.order[k] = i}) = 1

\* One fetch per selected channel: the first 10 channels for dashboard and
\* engagement_scores, the first 5 for member_segments, and every channel for
\* channel_activity and top_contributors.
FanOutAsCoded ==
    (req.fn = "synth" /\ run.done /\ req.mode \in FannedModes) =>
        /\ req.mode \in {"dashboard", "engagement_scores"} =>
              Len(run.order) = Min(Len(dir.channels), DashboardFanOut)
        /\ req.mode = "member_segments" =>
              Len(run.order) = Min(Len(dir.channels), SegmentsFanOut)
        /\ req.mode = "channel_activity" =>
              Len(run.order) = Len(dir.channels) /\ Len(run.val.channels) = Len(dir.channels)
        /\ req.mode = "top_contributors" => Len(run.order) = Len(dir.channels)
        /\ \A i \in 1..Len(run.order) :
              Cardinality({k \in 1..Len(run.order) : run.order[k] = i}) = 1

----------------------------------------------------------------------------
(* A HeartbeatAPI whose cache has grown large *)

MaxOver == 1         \* entries of the grown cache beyond the sweep threshold
MaxSweepCalls == 1   \* calls that reach the network in one behaviour of SweepSpec

\* Entries are stored at one of three instants; the clock then stands where the
\* entries of the second instant expire.
StoredAt == <<0, TickStep, 2 * TickStep>>
SweepNow == Expiry(StoredAt[2])

\* The i-th of the gets that filled the cache, one per user, and its entry.
BulkKey(i) == cacheKey("GET", <<"/users/", <<"u", i>> >>, NoParams)
BulkEntry(i, at) == [data |-> Payload(BulkKey(i), 0), expires |-> Expiry(at)]

\* The cache after n gets of distinct users, all long ago, all lately, or in turn at
\* the three instants, and after a get of /users, if any.
Grown(n, age, probe) ==
    LET At(i) == CASE age = "stale" -> StoredAt[1]
                   [] age = "fresh" -> StoredAt[3]
                   [] OTHER -> StoredAt[(i % 3) + 1]
        users == cacheKey("GET", <<"/users">>, NoParams)
        Filled == [k \in {BulkKey(i) : i \in 1..n} |-> BulkEntry(k[2][2][2], At(k[2][2][2]))]
    IN  CASE probe = "fresh" ->
                CacheSet(Filled, users, [data |-> Payload(users, 0),
                                         expires |-> Expiry(StoredAt[3])])
          [] probe = "stale" ->
                CacheSet(Filled, users, [data |-> Payload(users, 0),
                                         expires |-> Expiry(StoredAt[1])])
          [] OTHER -> Filled

InitSweep ==
    /\ now = SweepNow
    /\ cache \in {Grown(n, age, probe) :
                    n \in SweepThreshold..(SweepThreshold + MaxOver),
                    age \in {"stale", "fresh", "mixed"},
                    probe \in {"absent", "fresh", "stale"}}
    /\ calls = [c \in Slots |-> IdleCall]
    /\ last = IdleCall
    /\ served = NotServed
    /\ fills = [k \in Keys |-> NoFill]
    /\ epoch = 0
    /\ nextId = 0
    /\ prior = [k \in Keys |-> 0]
    /\ hist = [i \in Ids |-> NoHist]
    /\ mutPending = FALSE
    /\ dir = NoDir
    /\ req = NoReq
    /\ run = NoRun
    /\ width = 1
    /\ cap = MaxSweepCalls
    /\ quota = 0

SweepSpec == InitSweep /\ [][Next]_vars

\* C26: a get removes entries only when it misses and the cache holds more than 1000
\* entries, it removes only entries whose expiry has passed and changes no other
\* entry, and after such a sweep no expired entry is left (more than 1000 unexpired
\* entries may be).
Th_C26 ==
    [][(\E a \in GetArgs : Get(a[1], a[2])) =>
          LET removed == DOMAIN cache \ DOMAIN cache'
              miss == nextId' # nextId
              large == Cardinality(DOMAIN cache) > SweepThreshold
          IN  /\ DOMAIN cache' \subseteq DOMAIN cache
              /\ \A k \in DOMAIN cache' : cache'[k] = cache[k]
              /\ \A k \in removed : cache[k].expires <= now
              /\ removed # {} => miss /\ large
              /\ (miss /\ large) => \A k \in DOMAIN cache' : cache'[k].expires > now
              /\ ~(miss /\ large) => cache' = cache]_vars

\* A get is in flight, no mutation was made, and of the cache of more than 1000
\* entries the expired ones are gone and the unexpired ones are kept.
Wit_C26 ==
    /\ epoch = 0 /\ nextId = 1
    /\ \E c \in Slots : calls[c].pc = "flight" /\ calls[c].method = "GET"
    /\ BulkKey(1) \notin DOMAIN cache /\ BulkKey(2) \in DOMAIN cache
    /\ BulkKey(3) \notin DOMAIN cache
    /\ BulkKey(SweepThreshold + 1) \in DOMAIN cache
    /\ \A k \in DOMAIN cache : cache[k].expires > now

----------------------------------------------------------------------------
(* The ranges of course_progress *)

\* C30: in course_progress, whatever the users' completion records (the same lesson
\* may be named more than once), no user's completed count of a course exceeds the
\* number of lessons of the course, no remaining is negative, and avg_completion_pct
\* lies within 0..100.
CE_C30 ==
    Synthesized("course_progress") =>
        \A c \in 1..Len(dir.courses) :
            LET out == run.val.courses[c]
            IN  /\ \A i \in 1..Len(dir.users) :
                      Completed(dir.users[i], dir.courses[c].lessons) <= out.total_lessons
                /\ \A k \in 1..Len(out.stalled_members) :
                      /\ out.stalled_members[k].remaining >= 0
                      /\ out.stalled_members[k].completed <= out.total_lessons
                /\ out.avg_completion_pct \in 0..100

\* What holds of the ranges: the members reported as stalled have completed less than
\* the total and a positive remaining, and the average is not negative.
RangesAsCoded ==
    Synthesized("course_progress") =>
        \A c \in 1..Len(dir.courses) :
            LET out == run.val.courses[c]
            IN  /\ \A k \in 1..Len(out.stalled_members) :
                      /\ out.stalled_members[k].remaining > 0
                      /\ out.stalled_members[k].completed < out.total_lessons
                /\ out.avg_completion_pct >= 0

----------------------------------------------------------------------------
(* Mutations of one tool call *)

\* The places of the log of the tool call that hold a put, post or delete.
Mutations == {i \in 1..Len(run.log) : run.log[i].verb \in Mutators}

\* The steps of the handler that resolve a name.
ResolverSteps ==
    {j \in 1..Len(Handler(req).steps) :
        Handler(req).steps[j].op \in {"resolveUser", "resolveChannel"}}

\* C27: a tool call makes at most one put, post or delete; every lookup of a resolver
\* is made before it; when a resolver fails none is made; and of the HTTP attempts of
\* the mutating call only the last one may receive an answer other than 429.
Th_C27 ==
    (req.fn = "tool" /\ run.done) =>
        /\ Cardinality(Mutations) <= 1
        /\ \A i \in Mutations : \A j \in 1..Len(run.log) : run.log[j].verb = "GET" => j < i
        /\ (\E j \in ResolverSteps : j \notin run.ok) => Mutations = {}
        /\ Len(run.tries) = Cardinality(Mutations)
        /\ \A t \in 1..Len(run.tries) :
              /\ Len(run.tries[t]) \in 1..(DefaultRetries + 1)
              /\ \A k \in 1..(Len(run.tries[t]) - 1) : run.tries[t][k][1] = Response(429)

\* A dm is sent: the user is looked up, then one put is made, whose third attempt is
\* the first the remote API does not answer with 429.
Wit_C27 ==
    /\ req.fn = "tool" /\ run.done /\ req.mode = "dm" /\ req.action = "send"
    /\ ~run.raised
    /\ Len(run.log) >= 2
    /\ Mutations = {Len(run.log)}
    /\ run.log[Len(run.log)].path = <<"/directMessages">>
    /\ Len(run.tries[1]) = 3 /\ run.tries[1][3][1] = Response(200)

\* A resolver fails and the tool call makes no put, post or delete.
ResolverFailed ==
    /\ req.fn = "tool" /\ run.done /\ req.mode = "post"
    /\ ResolverSteps # {} /\ ResolverSteps \cap run.ok = {}
    /\ run.raised /\ Mutations = {}

----------------------------------------------------------------------------
(* What the cache holds *)

\* The step ends the call of slot c, a get, in failure; in success; ends a put, post
\* or delete.
FailedGet(c) ==
    /\ calls[c].pc = "flight" /\ calls[c].method = "GET"
    /\ last' # last /\ last'.id = calls[c].id /\ ~last'.ok
StoredGet(c) ==
    /\ calls[c].pc = "flight" /\ calls[c].method = "GET"
    /\ last' # last /\ last'.id = calls[c].id /\ last'.ok
EndedMutation(c) ==
    /\ calls[c].pc = "flight" /\ calls[c].method \in Mutators
    /\ last' # last /\ last'.id = calls[c].id

\* Every entry is the payload of a get, under the key of that get; a successful get
\* stores its payload under its own key and changes no other entry; the response of a
\* put, post or delete is not stored.
OwnPayloads(c) ==
    /\ \A k \in DOMAIN cache' : cache'[k].data.of = k /\ k[1] = "GET"
    /\ StoredGet(c) =>
          /\ DOMAIN cache' = DOMAIN cache \cup {KeyOf(calls[c])}
          /\ cache'[KeyOf(calls[c])] =
                [data |-> Payload(KeyOf(calls[c]), calls[c].id), expires |-> now + cacheTTL]
          /\ \A k \in DOMAIN cache \ {KeyOf(calls[c])} : cache'[k] = cache[k]
    /\ EndedMutation(c) => cache' = cache

\* C28 as stated: the cache holds only payloads of successful gets under their own
\* keys, the response of a put, post or delete is never stored, and a get that fails
\* leaves the cache as it was when the get was called (calls made one at a time).
CE_C28 ==
    [][\A c \in Slots :
          /\ OwnPayloads(c)
          /\ FailedGet(c) => cache' = calls[c].had]_vars

\* C28, amended: a get that fails adds and replaces no entry and changes none that
\* stays; when it missed on a cache of more than 1000 entries, the entries that had
\* expired when it was called are gone.
Th_C28 ==
    [][\A c \in Slots :
          /\ OwnPayloads(c)
          /\ FailedGet(c) =>
                LET had == calls[c].had
                    large == Cardinality(DOMAIN had) > SweepThreshold
                IN  /\ cache' = cache
                    /\ DOMAIN cache' \subseteq DOMAIN had
                    /\ \A k \in DOMAIN cache' : cache'[k] = had[k]
                    /\ \A k \in DOMAIN had \ DOMAIN cache' :
                          large /\ had[k].expires <= calls[c].startedAt
                    /\ large => \A k \in DOMAIN cache' : had[k].expires > calls[c].startedAt]_vars

\* A get that missed on a cache of more than 1000 entries has failed: its sweep removed
\* entries, and nothing was stored.
Wit_C28 ==
    /\ last.pc = "done" /\ last.method = "GET" /\ ~last.ok
    /\ Cardinality(DOMAIN last.had) > SweepThreshold
    /\ DOMAIN cache # DOMAIN last.had
    /\ cache # EmptyCache
    /\ KeyOf(last) \notin DOMAIN cache

====
